---- MODULE Spec2Model ----
(***************************************************************************)
(* A model of the local_rag repository: the RAG pipeline (vector store,    *)
(* text splitting, retrieval, generation), the document loader of the      *)
(* ingestion script, and the two command-line programs (chat, ingest).     *)
(*                                                                         *)
(* Text is modelled as a sequence of characters, each a one-character      *)
(* string; the literal pieces of the prompt template are single tokens.    *)
(* A metadata dict is modelled as a set of <<key, value>> pairs.           *)
(*                                                                         *)
(* The external services are modelled by their contracts:                  *)
(*   - chromadb: a named collection exists or not; delete_collection and   *)
(*     get_collection raise when it does not exist; get_or_create makes    *)
(*     an empty one; count() is the number of stored chunks; a query for   *)
(*     n_results returns min(n_results, count) distinct chunks, ranked.    *)
(*   - RecursiveCharacterTextSplitter: chunks are stripped of surrounding  *)
(*     whitespace and a chunk that is empty after stripping is dropped;    *)
(*     a text no longer than chunk_size gives at most one chunk.           *)
(*   - the LLM: any answer / any stream of chunks for a prompt.            *)
(***************************************************************************)
EXTENDS Integers, Sequences, FiniteSets, TLC

VARIABLES
    collExists,   \* chromadb: the collection settings.chroma_collection_name exists
    collDocs,     \* chromadb: the chunks stored in the collection, in insertion order
    result,       \* the outcome of the last RAGPipeline call
    llmCall,      \* the last call made to the LLM: its prompt and its response
    idsReturned,  \* history: number of IDs returned by add_documents since the last reset
    sinceFresh,   \* history: the store was empty at construction, or has been reset since
    afterReset,   \* history: 0, or how far the calls reset, get_stats, add_documents have got
    dirFiles,     \* load_documents: the entries directory.rglob("*") yields, in order
    loadPos,      \* load_documents: number of entries already visited
    documents,    \* load_documents: the list being built
    loadOut,      \* load_documents: the lines printed so far
    loadPc,       \* load_documents: "idle" | "loop" | "returned" | "raised"
    chatPc,       \* chat.main: where the program is (see ChatPcs)
    chatOut,      \* chat.main: what was printed since the last input was read
    exitCode,     \* chat.main: the status of sys.exit, -1 while running
    queried,      \* chat.main: rag.query_stream has been called
    session,      \* chat.main, history: the confirmation's answer, whether the loop
                  \* was entered, and what the loop's last input() gave
    ingestArgs,   \* ingest main: args (the directory exists, --reset)
    ingestPc,     \* ingest main: where the program is (see IngestPcs)
    ingestOut,    \* ingest main: the messages printed so far
    ingestCalls,  \* ingest main, history: the calls made on the pipeline, in order
    storeBefore,  \* ingest main, history: the collection when the program started
    docFile,      \* load_docx_file / load_pptx_file: the file given to the loader
    loaded,       \* load_docx_file / load_pptx_file: what the loader returned
    preserve_layout,  \* PDFLayoutProcessor: self.preserve_layout
    pdfPages,     \* extract_text_elements: pdf.pages, each the words extract_words gives
    pageNum,      \* extract_text_elements: page_num of the page being read
    wordPos,      \* extract_text_elements: number of words of the page already read
    current_line_words,  \* extract_text_elements: the words of the line being built
    current_line_bbox,   \* extract_text_elements: its bounding box, <<>> for None
    elements,     \* extract_text_elements: the TextElements emitted so far
    pdfPc,        \* process_pdf: "idle" | "page" | "words" | "extracted" | "returned"
    pdfResult     \* process_pdf: the (formatted_text, metadata) returned

vars == <<collExists, collDocs, result, llmCall, idsReturned, sinceFresh, afterReset,
          dirFiles, loadPos, documents, loadOut, loadPc,
          chatPc, chatOut, exitCode, queried, session,
          ingestArgs, ingestPc, ingestOut, ingestCalls, storeBefore,
          docFile, loaded,
          preserve_layout, pdfPages, pageNum, wordPos, current_line_words,
          current_line_bbox, elements, pdfPc, pdfResult>>

pipelineVars == <<collExists, collDocs, result, llmCall, idsReturned, sinceFresh, afterReset>>
loadVars == <<dirFiles, loadPos, documents, loadOut, loadPc>>
chatVars == <<chatPc, chatOut, exitCode, queried, session>>
ingestVars == <<ingestArgs, ingestPc, ingestOut, ingestCalls, storeBefore>>
fileVars == <<docFile, loaded>>
pdfVars == <<preserve_layout, pdfPages, pageNum, wordPos, current_line_words,
             current_line_bbox, elements, pdfPc, pdfResult>>
\* the variables of the programs modelled further down
laterVars == <<ingestVars, fileVars, pdfVars>>

(***************************************************************************)
(* Bounds of the model.                                                    *)
(***************************************************************************)
\* settings.chunk_size, scaled down to the model's texts
ChunkSize == 2
\* settings.top_k, scaled down to the model's store
TopK == 2
\* cap on the number of chunks the collection holds
MaxStore == 2
\* most entries directory.rglob("*") yields
MaxFiles == 2
\* most paragraphs of a Word document
MaxParagraphs == 2
\* most slides of a presentation
MaxSlides == 2
\* most pages of a PDF, and most words on all its pages together
MaxPages == 2
MaxWords == 3

(***************************************************************************)
(* Text helpers.                                                           *)
(***************************************************************************)
Min(a, b) == IF a <= b THEN a ELSE b

\* str.isspace for one character
IsSpace(c) == c \in {" ", "\n"}

RECURSIVE LStrip(_)
LStrip(s) == IF s = <<>> THEN <<>>
             ELSE IF IsSpace(Head(s)) THEN LStrip(Tail(s)) ELSE s

RECURSIVE RStrip(_)
RStrip(s) == IF s = <<>> THEN <<>>
             ELSE IF IsSpace(s[Len(s)]) THEN RStrip(SubSeq(s, 1, Len(s) - 1)) ELSE s

\* str.strip()
Strip(s) == RStrip(LStrip(s))

\* sep.join(parts)
RECURSIVE Join(_, _)
Join(parts, sep) ==
    IF parts = <<>> THEN <<>>
    ELSE IF Len(parts) = 1 THEN parts[1]
    ELSE parts[1] \o sep \o Join(Tail(parts), sep)

\* "".join(parts)
RECURSIVE Concat(_)
Concat(parts) == IF parts = <<>> THEN <<>> ELSE Head(parts) \o Concat(Tail(parts))

\* all sequences over S of length 0..n
SeqsUpTo(S, n) == UNION {[1..m -> S] : m \in 0..n}

\* all sequences of n distinct elements of 1..m (a ranking of n out of m items)
Rankings(m, n) == {r \in [1..n -> 1..m] : \A i, j \in 1..n : i # j => r[i] # r[j]}

(***************************************************************************)
(* Inputs.                                                                 *)
(***************************************************************************)
\* the texts handed to add_documents: empty, blank, short, longer than ChunkSize
DocTexts == {<<>>, <<" ">>, <<"a">>, <<"a", "b", "a">>}

\* the documents argument: lists of up to two texts
DocLists == SeqsUpTo(DocTexts, 2)

\* a metadata dict
EmptyMeta == {}
Meta(i) == {<<"source", i>>}

\* the metadatas argument: None, or a list of up to two dicts (the i-th is Meta(i))
NoMetadatas == [given |-> FALSE, list |-> <<>>]
MetaArgs == {NoMetadatas} \cup {[given |-> TRUE, list |-> [i \in 1..m |-> Meta(i)]] : m \in 0..2}

\* Python truthiness of the metadatas argument: None and [] are falsy
Truthy(metas) == metas.given /\ metas.list # <<>>

(***************************************************************************)
(* RecursiveCharacterTextSplitter, by its contract (see the module head).  *)
(* A text longer than ChunkSize is cut into windows of ChunkSize           *)
(* characters (the library prefers to cut at separators and may overlap    *)
(* windows: that changes the contents of the chunks of a long text only).  *)
(***************************************************************************)
RECURSIVE Windows(_)
Windows(text) ==
    IF Len(text) <= ChunkSize THEN <<text>>
    ELSE <<SubSeq(text, 1, ChunkSize)>> \o Windows(SubSeq(text, ChunkSize + 1, Len(text)))

NonEmpty(s) == s # <<>>

\* text_splitter.split_text: the stripped windows, the empty ones dropped
SplitText(text) ==
    LET w == Windows(text)
    IN  SelectSeq([i \in 1..Len(w) |-> Strip(w[i])], NonEmpty)

\* text_splitter.split_documents: every chunk carries its document's metadata
RECURSIVE SplitDocuments(_)
SplitDocuments(docs) ==
    IF docs = <<>> THEN <<>>
    ELSE LET d == Head(docs)
             chunks == SplitText(d.page_content)
         IN  [i \in 1..Len(chunks) |->
                 [page_content |-> chunks[i], metadata |-> d.metadata,
                  doc_index |-> d.doc_index]]
             \o SplitDocuments(Tail(docs))

(***************************************************************************)
(* VectorStoreManager.                                                     *)
(***************************************************************************)
\* __init__: Chroma(client, collection_name) gets or creates the collection
VectorStoreManagerInit(store) ==
    [exists |-> TRUE, docs |-> IF store.exists THEN store.docs ELSE <<>>]

\* delete_collection, when the collection exists
DeleteCollection(store) == [exists |-> FALSE, docs |-> <<>>]

\* zip that gives every document the first metadata
ZipDocumentsFirstMeta(docs, metas) ==
    LET metaList == IF Truthy(metas) THEN metas.list
                    ELSE [i \in 1..Len(docs) |-> EmptyMeta]
        n == Min(Len(docs), Len(metaList))
    IN  [i \in 1..n |->
            [page_content |-> docs[i], metadata |-> metaList[1], doc_index |-> i]]

\* zip(documents, metadatas or [{}] * len(documents)), as Document objects
ZipDocuments(docs, metas) ==
    LET metaList == IF Truthy(metas) THEN metas.list
                    ELSE [i \in 1..Len(docs) |-> EmptyMeta]
        n == Min(Len(docs), Len(metaList))
    IN  [i \in 1..n |->
            [page_content |-> docs[i],
             metadata |-> IF metaList[i] = {} THEN EmptyMeta ELSE metaList[i],
             doc_index |-> i]]

\* the chunks as stored: page_content and metadata
Stored(split) ==
    [i \in 1..Len(split) |->
        [page_content |-> split[i].page_content, metadata |-> split[i].metadata]]

Raised(op) == [op |-> op, raised |-> TRUE]

\* how the calls reset, get_stats, add_documents have followed one another
Follow(op) ==
    IF op = "reset" THEN 1
    ELSE IF op = "get_stats" /\ afterReset = 1 THEN 2
    ELSE IF op = "add_documents" /\ afterReset = 2 THEN 3
    ELSE 0

\* RAGPipeline.add_documents -> VectorStoreManager.add_documents
AddDocuments(docs, metas) ==
    LET split == SplitDocuments(ZipDocuments(docs, metas))
        call == [op |-> "add_documents", documents |-> docs, metadatas |-> metas,
                 split |-> split]
        raises == call @@ [raised |-> TRUE, ids |-> <<>>]
    IN  /\ Len(collDocs) + Len(split) <= MaxStore
        /\ afterReset' = Follow("add_documents")
        /\ UNCHANGED <<llmCall, sinceFresh, collExists>>
        /\ \/ \* the collection is gone: the store raises
              /\ ~collExists
              /\ result' = raises
              /\ UNCHANGED <<collDocs, idsReturned>>
           \/ \* no chunk at all: the store rejects the empty batch ...
              /\ collExists /\ split = <<>>
              /\ result' = raises
              /\ UNCHANGED <<collDocs, idsReturned>>
           \/ \* ... or accepts it, depending on its version
              /\ collExists /\ split = <<>>
              /\ result' = call @@ [raised |-> FALSE, ids |-> <<>>]
              /\ UNCHANGED <<collDocs, idsReturned>>
           \/ \* one uuid per chunk, here the chunk's place in the collection
              /\ collExists /\ split # <<>>
              /\ collDocs' = collDocs \o Stored(split)
              /\ result' = call @@ [raised |-> FALSE,
                                    ids |-> [i \in 1..Len(split) |-> Len(collDocs) + i]]
              /\ idsReturned' = idsReturned + Len(result'.ids)

\* RAGPipeline.get_stats -> VectorStoreManager.get_collection_count
GetStats ==
    /\ result' = IF collExists
                 THEN [op |-> "get_stats", raised |-> FALSE, num_documents |-> Len(collDocs)]
                 ELSE Raised("get_stats")
    /\ afterReset' = Follow("get_stats")
    /\ UNCHANGED <<collExists, collDocs, llmCall, idsReturned, sinceFresh>>

\* reset that forgets to re-create the VectorStoreManager
ResetStoreNoReinit(store) == DeleteCollection(store)

\* reset that re-creates the VectorStoreManager without deleting the collection
ResetStoreKeepsDocs(store) == VectorStoreManagerInit(store)

\* the store after RAGPipeline.reset, when delete_collection does not raise
ResetStore(store) == VectorStoreManagerInit(DeleteCollection(store))

\* RAGPipeline.reset
Reset ==
    /\ afterReset' = Follow("reset")
    /\ UNCHANGED llmCall
    /\ IF collExists
       THEN LET s == ResetStore([exists |-> collExists, docs |-> collDocs])
            IN  /\ collExists' = s.exists
                /\ collDocs' = s.docs
                /\ result' = [op |-> "reset", raised |-> FALSE]
                /\ idsReturned' = 0
                /\ sinceFresh' = TRUE
       ELSE /\ result' = Raised("reset")
            /\ UNCHANGED <<collExists, collDocs, idsReturned, sinceFresh>>

NoCall == [prompt |-> <<>>, response |-> <<>>]

LoadIdle ==
    /\ dirFiles = <<>> /\ loadPos = 0 /\ documents = <<>> /\ loadOut = <<>>
    /\ loadPc = "idle"

\* what input() gave: nothing yet, a line, or end of input
NoInput == [kind |-> "none", text |-> <<>>]
Line(text) == [kind |-> "line", text |-> text]
EndOfInput == [kind |-> "eof", text |-> <<>>]

NoSession == [answer |-> NoInput, entered |-> FALSE, input |-> NoInput]

ChatIdle ==
    /\ chatPc = "idle" /\ chatOut = <<>> /\ exitCode = -1 /\ queried = FALSE
    /\ session = NoSession

NoStore == [exists |-> FALSE, docs |-> <<>>]
NotReturned == [returned |-> FALSE]

IngestIdle ==
    /\ ingestArgs = [exists |-> FALSE, reset |-> FALSE]
    /\ ingestPc = "idle" /\ ingestOut = <<>> /\ ingestCalls = <<>>
    /\ storeBefore = NoStore

FileIdle == docFile = [kind |-> "none"] /\ loaded = NotReturned

PdfIdle ==
    /\ preserve_layout = TRUE
    /\ pdfPages = <<>> /\ pageNum = 0 /\ wordPos = 0
    /\ current_line_words = <<>> /\ current_line_bbox = <<>>
    /\ elements = <<>> /\ pdfPc = "idle" /\ pdfResult = NotReturned

\* the programs modelled further down are not running
LaterIdle == IngestIdle /\ FileIdle /\ PdfIdle

\* a chunk that an earlier run left in the persisted collection
OldChunk == [page_content |-> <<"a">>, metadata |-> EmptyMeta]

\* RAGPipeline.__init__ over a persist directory that is new, or holds the
\* collection from an earlier run
Init ==
    /\ \E before \in {[exists |-> FALSE, docs |-> <<>>],
                      [exists |-> TRUE, docs |-> <<>>],
                      [exists |-> TRUE, docs |-> <<OldChunk>>]} :
          LET s == VectorStoreManagerInit(before)
          IN  /\ collExists = s.exists
              /\ collDocs = s.docs
              /\ sinceFresh = (s.docs = <<>>)
    /\ result = [op |-> "init", raised |-> FALSE]
    /\ llmCall = NoCall
    /\ idsReturned = 0
    /\ afterReset = 0
    /\ LoadIdle /\ ChatIdle /\ LaterIdle

Next ==
    \/ \E docs \in DocLists, metas \in MetaArgs :
          AddDocuments(docs, metas) /\ UNCHANGED <<loadVars, chatVars, laterVars>>
    \/ GetStats /\ UNCHANGED <<loadVars, chatVars, laterVars>>
    \/ Reset /\ UNCHANGED <<loadVars, chatVars, laterVars>>

Spec == Init /\ [][Next]_vars

(***************************************************************************)
(* Retrieval and generation.                                               *)
(***************************************************************************)
\* the questions asked; a question is handed on as typed, spaces included
Questions == {<<"w", "?">>, <<" ", "w">>}

\* the k argument: None (<<>>) or an integer (<<n>>)
NoK == <<>>
KArgs == {NoK} \cup {<<n>> : n \in 0..(MaxStore + 1)}

\* what the LLM may answer
Answers == {<<"y">>, <<"n">>}

\* the base of the distances the store reports
ScoreBases == {0, 1}

\* similarity_search ignoring its k argument
SearchKIgnoresArg(k) == TopK

\* k = k or self.settings.top_k: None and 0 are falsy
SearchK(k) == IF k = NoK \/ k = <<0>> THEN TopK ELSE k[1]

\* the chunks the store returns for a ranking r of its contents
Retrieved(r) == [i \in 1..Len(r) |-> collDocs[r[i]]]

\* the rankings the store may return for n_results = n
SearchRankings(n) == Rankings(Len(collDocs), Min(n, Len(collDocs)))

\* "\n\n".join(doc.page_content for doc in context_documents)
ContextText(docs) == Join([i \in 1..Len(docs) |-> docs[i].page_content], <<"\n", "\n">>)

\* DEFAULT_PROMPT_TEMPLATE.format(context=..., question=...)
FormatPrompt(context, question) ==
    <<"Use the following pieces of context ... Context:\n">> \o context
    \o <<"\n\nQuestion: ">> \o question \o <<"\n\nAnswer:">>

\* Generator.generate: the prompt handed to the LLM
GeneratePrompt(question, docs) == FormatPrompt(ContextText(docs), question)

\* the documents of the pairs, last first
DocsOfPairsReversed(pairs) == [i \in 1..Len(pairs) |-> pairs[Len(pairs) + 1 - i][1]]

\* [doc for doc, _ in docs_with_scores]
DocsOfPairs(pairs) == [i \in 1..Len(pairs) |-> pairs[i][1]]

\* RAGPipeline.query
Query(question, k, r, answer) ==
    /\ collExists
    /\ r \in SearchRankings(SearchK(k))
    /\ LET context_docs == Retrieved(r)
       IN  /\ llmCall' = [prompt |-> GeneratePrompt(question, context_docs),
                          response |-> answer]
           /\ result' = [op |-> "query", raised |-> FALSE, k |-> k,
                         answer |-> answer, context |-> context_docs,
                         question |-> question,
                         num_context_docs |-> Len(context_docs)]
    /\ afterReset' = Follow("query")
    /\ UNCHANGED <<collExists, collDocs, idsReturned, sinceFresh>>

\* RAGPipeline.query_with_scores
QueryWithScores(question, k, r, base, answer) ==
    /\ collExists
    /\ r \in SearchRankings(SearchK(k))
    /\ LET docs_with_scores == [i \in 1..Len(r) |-> <<collDocs[r[i]], base + i>>]
           context_docs == DocsOfPairs(docs_with_scores)
       IN  /\ llmCall' = [prompt |-> GeneratePrompt(question, context_docs),
                          response |-> answer]
           /\ result' = [op |-> "query_with_scores", raised |-> FALSE, k |-> k,
                         answer |-> answer, context |-> docs_with_scores,
                         question |-> question,
                         num_context_docs |-> Len(context_docs)]
    /\ afterReset' = Follow("query_with_scores")
    /\ UNCHANGED <<collExists, collDocs, idsReturned, sinceFresh>>

\* the chunks an earlier ingestion may have left in the collection
QueryChunks == {[page_content |-> c, metadata |-> EmptyMeta] : c \in {<<"a">>, <<"a", "b">>}}

\* RAGPipeline.__init__ over a collection filled by earlier add_documents calls
InitQuery ==
    /\ collExists = TRUE
    /\ collDocs \in SeqsUpTo(QueryChunks, MaxStore)
    /\ sinceFresh = (collDocs = <<>>)
    /\ result = [op |-> "init", raised |-> FALSE]
    /\ llmCall = NoCall
    /\ idsReturned = 0
    /\ afterReset = 0
    /\ LoadIdle /\ ChatIdle /\ LaterIdle

NextQuery ==
    \/ \E q \in Questions, k \in KArgs, a \in Answers :
          \E r \in SearchRankings(SearchK(k)) :
             Query(q, k, r, a) /\ UNCHANGED <<loadVars, chatVars, laterVars>>
    \/ \E q \in Questions, k \in KArgs, a \in Answers, b \in ScoreBases :
          \E r \in SearchRankings(SearchK(k)) :
             QueryWithScores(q, k, r, b, a) /\ UNCHANGED <<loadVars, chatVars, laterVars>>

SpecQuery == InitQuery /\ [][NextQuery]_vars

(***************************************************************************)
(* scripts/ingest_documents.py: load_documents.                            *)
(***************************************************************************)
\* str.lower for one character
LowerChar(c) ==
    CASE c = "T" -> "t" [] c = "X" -> "x" [] c = "P" -> "p" [] c = "D" -> "d"
      [] c = "F" -> "f" [] c = "Q" -> "q" [] c = "U" -> "u" [] c = "I" -> "i"
      [] c = "S" -> "s" [] c = "A" -> "a" [] c = "H" -> "h" [] c = "E" -> "e"
      [] c = "L" -> "l" [] c = "O" -> "o" [] c = "Y" -> "y" [] c = "N" -> "n"
      [] OTHER -> c

\* str.lower()
Lower(s) == [i \in 1..Len(s) |-> LowerChar(s[i])]

\* supported_extensions
SupportedExtensions ==
    {<<".", "t", "x", "t">>, <<".", "p", "d", "f">>,
     <<".", "d", "o", "c", "x">>, <<".", "p", "p", "t", "x">>}

\* the suffix test that forgets to lower-case
IsSupportedAsTyped(suffix) == suffix \in SupportedExtensions

\* not (file_path.suffix.lower() not in supported_extensions)
IsSupported(suffix) == Lower(suffix) \in SupportedExtensions

\* the file_type in the metadata of the loader the suffix selects
FileType(suffix) ==
    IF Lower(suffix) = <<".", "p", "d", "f">> THEN <<"p", "d", "f">>
    ELSE IF Lower(suffix) = <<".", "d", "o", "c", "x">> THEN <<"d", "o", "c", "x">>
    ELSE IF Lower(suffix) = <<".", "p", "p", "t", "x">> THEN <<"p", "p", "t", "x">>
    ELSE <<"t", "x", "t">>

\* the suffixes of the entries under the directory
Suffixes ==
    {<<".", "t", "x", "t">>, <<".", "T", "X", "T">>, <<".", "p", "d", "f">>,
     <<".", "d", "o", "c", "x">>, <<".", "P", "p", "t", "x">>, <<".", "m", "d">>, <<>>}

\* what loading an entry does: it loads, or its loader raises (invalid UTF-8,
\* a directory whose name ends in a supported suffix)
Outcomes == {"ok", "UnicodeDecodeError", "IsADirectoryError"}

\* an entry rglob yields: directly in the directory or in a subdirectory
DirEntries == [suffix : Suffixes, nested : BOOLEAN, outcome : Outcomes]

\* a handler that catches operating-system errors only
CaughtIfOSError(exc) == exc = "IsADirectoryError"

\* except Exception: every loader error is an Exception
Caught(exc) == exc \in {"UnicodeDecodeError", "IsADirectoryError"}

\* the entry now visited by the for loop
Entry == dirFiles[loadPos + 1]

\* the (content, metadata) a loader returns for entry i
Loaded(i) ==
    [content |-> <<"text of", ToString(i)>>,
     metadata |-> [source |-> i, filename |-> i,
                   file_type |-> FileType(dirFiles[i].suffix)]]

\* for file_path in directory.rglob("*"): an unsupported suffix, continue
LoadSkip ==
    /\ loadPc = "loop" /\ loadPos < Len(dirFiles)
    /\ ~IsSupported(Entry.suffix)
    /\ loadPos' = loadPos + 1
    /\ UNCHANGED <<dirFiles, documents, loadOut, loadPc>>

\* the try block runs through: the entry is appended and "Loaded" printed
LoadFile ==
    /\ loadPc = "loop" /\ loadPos < Len(dirFiles)
    /\ IsSupported(Entry.suffix)
    /\ Entry.outcome = "ok"
    /\ documents' = Append(documents, Loaded(loadPos + 1))
    /\ loadOut' = Append(loadOut, <<"Loaded: ", loadPos + 1>>)
    /\ loadPos' = loadPos + 1
    /\ UNCHANGED <<dirFiles, loadPc>>

\* the loader raises: the handler prints "Error loading", or the exception
\* leaves load_documents
LoadFail ==
    /\ loadPc = "loop" /\ loadPos < Len(dirFiles)
    /\ IsSupported(Entry.suffix)
    /\ Entry.outcome # "ok"
    /\ IF Caught(Entry.outcome)
       THEN /\ loadOut' = Append(loadOut, <<"Error loading ", loadPos + 1>>)
            /\ loadPos' = loadPos + 1
            /\ UNCHANGED <<dirFiles, documents, loadPc>>
       ELSE /\ loadPc' = "raised"
            /\ UNCHANGED <<dirFiles, documents, loadOut, loadPos>>

\* return documents
LoadReturn ==
    /\ loadPc = "loop" /\ loadPos = Len(dirFiles)
    /\ loadPc' = "returned"
    /\ UNCHANGED <<dirFiles, loadPos, documents, loadOut>>

PipelineIdle ==
    /\ collExists = TRUE /\ collDocs = <<>>
    /\ result = [op |-> "init", raised |-> FALSE]
    /\ llmCall = NoCall
    /\ idsReturned = 0 /\ sinceFresh = TRUE /\ afterReset = 0

\* load_documents(directory) is called on a directory tree
InitLoad ==
    /\ dirFiles \in SeqsUpTo(DirEntries, MaxFiles)
    /\ loadPos = 0 /\ documents = <<>> /\ loadOut = <<>>
    /\ loadPc = "loop"
    /\ PipelineIdle /\ ChatIdle /\ LaterIdle

NextLoad ==
    \/ LoadSkip /\ UNCHANGED <<pipelineVars, chatVars, laterVars>>
    \/ LoadFile /\ UNCHANGED <<pipelineVars, chatVars, laterVars>>
    \/ LoadFail /\ UNCHANGED <<pipelineVars, chatVars, laterVars>>
    \/ LoadReturn /\ UNCHANGED <<pipelineVars, chatVars, laterVars>>

SpecLoad == InitLoad /\ [][NextLoad]_vars

(***************************************************************************)
(* scripts/chat.py: main, with RAGPipeline.query_stream and                *)
(* Generator.generate_stream.  A pipeline call may raise at any time (the  *)
(* store or the model server is unavailable).                              *)
(***************************************************************************)
ChatPcs == {"idle", "start", "startup_stats", "confirm", "prompt", "query",
            "streaming", "returned", "exited", "crashed"}

\* the exceptions a pipeline call raises; both are subclasses of Exception
PipelineErrors == {"ConnectionError", "ValueError"}

CallOutcomes == {"ok"} \cup PipelineErrors

\* what the user types at "You: "
InputLines ==
    {<<>>, <<" ">>, <<"/", "q">>, <<" ", "/", "Q", "U", "I", "T", " ">>,
     <<"/", "E", "x", "i", "t">>, <<"/", "s", "t", "a", "t", "s">>,
     <<"/", "H", "E", "L", "P">>, <<"/", "h">>, <<"/", "q", "q">>,
     <<"w", "?">>, <<" ", "h", "i", " ">>}

\* what the user types at "Continue anyway? (y/N): "
ConfirmLines == {<<"y">>, <<" ", "Y", " ">>, <<"n">>, <<"y", "e", "s">>, <<>>}

\* the chunks the LLM may stream for a prompt
LlmChunks == {<<>>, <<"y">>, <<"n", "o">>}
LlmStreams == SeqsUpTo(LlmChunks, 2)

\* a piece of output: a message of the program, or text printed as it is
Say(kind) == [kind |-> kind, text |-> <<>>]
Echo(text) == [kind |-> "chunk", text |-> text]

NoPipelineCall == [op |-> "none", raised |-> FALSE]

\* rag.get_stats() as the chat program sees it
StatsResult(outcome) ==
    IF outcome = "ok" /\ collExists
    THEN [op |-> "get_stats", raised |-> FALSE, num_documents |-> Len(collDocs)]
    ELSE Raised("get_stats")

\* try: rag = RAGPipeline() except Exception: print, sys.exit(1)
ChatInitPipeline(outcome) ==
    /\ chatPc = "start"
    /\ IF outcome = "ok"
       THEN /\ result' = [op |-> "init", raised |-> FALSE]
            /\ chatPc' = "startup_stats"
            /\ UNCHANGED <<chatOut, exitCode>>
       ELSE /\ result' = Raised("init")
            /\ chatOut' = Append(chatOut, Say("Error initializing RAG system"))
            /\ exitCode' = 1
            /\ chatPc' = "exited"
    /\ UNCHANGED <<collExists, collDocs, llmCall, idsReturned, sinceFresh, afterReset, queried,
                   session>>

\* stats = rag.get_stats(); the warning, or print_header()
ChatStartupStats(outcome) ==
    /\ chatPc = "startup_stats"
    /\ LET stats == StatsResult(outcome)
       IN  /\ result' = stats
           /\ IF stats.raised
              THEN chatPc' = "crashed" /\ UNCHANGED <<chatOut, session>>
              ELSE IF stats.num_documents = 0
              THEN /\ chatOut' = Append(chatOut, Say("Warning: No documents found"))
                   /\ chatPc' = "confirm"
                   /\ UNCHANGED session
              ELSE /\ chatOut' = Append(chatOut, Say("header"))
                   /\ chatPc' = "prompt"
                   /\ session' = [session EXCEPT !.entered = TRUE]
    /\ UNCHANGED <<collExists, collDocs, llmCall, idsReturned, sinceFresh, afterReset,
                   exitCode, queried>>

\* response = input("Continue anyway? (y/N): ").strip().lower()
ChatConfirm(line) ==
    /\ chatPc = "confirm"
    /\ IF Lower(Strip(line)) = <<"y">>
       THEN /\ chatOut' = <<Say("header")>>
            /\ chatPc' = "prompt"
            /\ session' = [session EXCEPT !.answer = Line(line), !.entered = TRUE]
            /\ UNCHANGED exitCode
       ELSE /\ chatOut' = <<Say("Exiting...")>>
            /\ exitCode' = 0
            /\ chatPc' = "exited"
            /\ session' = [session EXCEPT !.answer = Line(line)]
    /\ UNCHANGED <<pipelineVars, queried>>

\* end of input or Ctrl-C at the confirmation: input() raises outside any try
ChatConfirmAbort ==
    /\ chatPc = "confirm"
    /\ chatPc' = "crashed"
    /\ session' = [session EXCEPT !.answer = EndOfInput]
    /\ UNCHANGED <<pipelineVars, chatOut, exitCode, queried>>

QuitCommands == {<<"/", "q", "u", "i", "t">>, <<"/", "e", "x", "i", "t">>, <<"/", "q">>}
HelpCommands == {<<"/", "h", "e", "l", "p">>, <<"/", "h">>}
StatsCommand == <<"/", "s", "t", "a", "t", "s">>

\* question.startswith("/")
IsCommand(question) == question # <<>> /\ Head(question) = "/"

\* one pass of the while loop up to the query: question = input("You: ").strip()
ChatReadLine(line, outcome) ==
    LET question == Strip(line)
        command == Lower(question)
    IN  /\ chatPc = "prompt"
        /\ session' = [session EXCEPT !.input = Line(line)]
        /\ UNCHANGED <<collExists, collDocs, llmCall, idsReturned, sinceFresh, afterReset,
                       exitCode>>
        /\ IF question = <<>>
           THEN /\ chatOut' = <<>>
                /\ result' = NoPipelineCall
                /\ UNCHANGED <<chatPc, queried>>
           ELSE IF IsCommand(question)
           THEN /\ UNCHANGED queried
                /\ IF command \in QuitCommands
                   THEN /\ chatOut' = <<Say("Goodbye!")>>
                        /\ result' = NoPipelineCall
                        /\ chatPc' = "returned"
                   ELSE IF command = StatsCommand
                   THEN LET stats == StatsResult(outcome)
                        IN  /\ result' = stats
                            /\ IF stats.raised
                               THEN chatOut' = <<>> /\ chatPc' = "crashed"
                               ELSE chatOut' = <<Say("RAG System Statistics")>>
                                    /\ UNCHANGED chatPc
                   ELSE IF command \in HelpCommands
                   THEN /\ chatOut' = <<Say("Help")>>
                        /\ result' = NoPipelineCall
                        /\ UNCHANGED chatPc
                   ELSE /\ chatOut' = <<Say("Unknown command")>>
                        /\ result' = NoPipelineCall
                        /\ UNCHANGED chatPc
           ELSE \* print("", flush=True); rag.query_stream(question)
                /\ chatOut' = <<Say("")>>
                /\ result' = [op |-> "query_stream", raised |-> FALSE,
                              question |-> question, started |-> FALSE,
                              context |-> <<>>, consumed |-> 0, yielded |-> <<>>]
                /\ queried' = TRUE
                /\ chatPc' = "query"

\* except EOFError: print("Goodbye!"); break
ChatEOF ==
    /\ chatPc = "prompt"
    /\ chatOut' = <<Say("Goodbye!")>>
    /\ result' = NoPipelineCall
    /\ chatPc' = "returned"
    /\ session' = [session EXCEPT !.input = EndOfInput]
    /\ UNCHANGED <<collExists, collDocs, llmCall, idsReturned, sinceFresh, afterReset,
                   exitCode, queried>>

\* except KeyboardInterrupt: print("Interrupted by user."); continue
ChatInterrupt ==
    /\ chatPc \in {"prompt", "query", "streaming"}
    /\ IF chatPc = "prompt"
       THEN chatOut' = <<Say("Interrupted by user.")>> /\ result' = NoPipelineCall
       ELSE chatOut' = Append(chatOut, Say("Interrupted by user.")) /\ UNCHANGED result
    /\ chatPc' = "prompt"
    /\ UNCHANGED <<collExists, collDocs, llmCall, idsReturned, sinceFresh, afterReset,
                   exitCode, queried, session>>

\* generate_stream yielding every chunk twice
YieldedTwice(chunk) == <<chunk, chunk>>

\* for chunk in self.llm.stream(formatted_prompt): yield chunk
Yielded(chunk) == <<chunk>>

\* print(chunk, end="", flush=True) for each chunk
Printed(chunks) == [i \in 1..Len(chunks) |-> Echo(chunks[i])]

\* the generator's first step: similarity_search(question, k=None), the
\* prompt, and the LLM starts its stream
StreamStart(r, chunks) ==
    /\ chatPc = "query"
    /\ collExists
    /\ r \in SearchRankings(SearchK(NoK))
    /\ LET context_docs == Retrieved(r)
       IN  /\ llmCall' = [prompt |-> GeneratePrompt(result.question, context_docs),
                          response |-> chunks]
           /\ result' = [result EXCEPT !.started = TRUE, !.context = context_docs]
    /\ chatPc' = "streaming"
    /\ UNCHANGED <<collExists, collDocs, idsReturned, sinceFresh, afterReset,
                   chatOut, exitCode, queried, session>>

\* the LLM streams its next chunk; it is yielded up to the loop and printed
StreamChunk ==
    /\ chatPc = "streaming"
    /\ result.consumed < Len(llmCall.response)
    /\ LET out == Yielded(llmCall.response[result.consumed + 1])
       IN  /\ result' = [result EXCEPT !.consumed = @ + 1, !.yielded = @ \o out]
           /\ chatOut' = chatOut \o Printed(out)
    /\ UNCHANGED <<collExists, collDocs, llmCall, idsReturned, sinceFresh, afterReset,
                   chatPc, exitCode, queried, session>>

\* the stream is exhausted: print("\n")
StreamEnd ==
    /\ chatPc = "streaming"
    /\ result.consumed = Len(llmCall.response)
    /\ chatOut' = Append(chatOut, Say("\n"))
    /\ chatPc' = "prompt"
    /\ UNCHANGED <<pipelineVars, exitCode, queried, session>>

\* a handler for connection errors only
CaughtIfConnectionError(exc) == exc = "ConnectionError"

\* the inner except Exception
CaughtByChat(exc) == exc \in PipelineErrors

\* retrieval or the LLM stream raises
StreamRaise(exc) ==
    /\ chatPc \in {"query", "streaming"}
    /\ result' = [result EXCEPT !.raised = TRUE]
    /\ IF CaughtByChat(exc)
       THEN /\ chatOut' = Append(chatOut, Say("Error generating response"))
            /\ chatPc' = "prompt"
       ELSE /\ chatPc' = "crashed"
            /\ UNCHANGED chatOut
    /\ UNCHANGED <<collExists, collDocs, llmCall, idsReturned, sinceFresh, afterReset,
                   exitCode, queried, session>>

\* chat.py is started over a collection that earlier ingestions filled, or not
InitChat ==
    /\ collExists = TRUE
    /\ collDocs \in SeqsUpTo(QueryChunks, MaxStore)
    /\ sinceFresh = (collDocs = <<>>)
    /\ result = NoPipelineCall
    /\ llmCall = NoCall
    /\ idsReturned = 0
    /\ afterReset = 0
    /\ chatPc = "start" /\ chatOut = <<>> /\ exitCode = -1 /\ queried = FALSE
    /\ session = NoSession
    /\ LoadIdle /\ LaterIdle

NextChat ==
    \/ \E o \in CallOutcomes : ChatInitPipeline(o) /\ UNCHANGED <<loadVars, laterVars>>
    \/ \E o \in CallOutcomes : ChatStartupStats(o) /\ UNCHANGED <<loadVars, laterVars>>
    \/ \E l \in ConfirmLines : ChatConfirm(l) /\ UNCHANGED <<loadVars, laterVars>>
    \/ ChatConfirmAbort /\ UNCHANGED <<loadVars, laterVars>>
    \/ \E l \in InputLines, o \in CallOutcomes : ChatReadLine(l, o) /\ UNCHANGED <<loadVars, laterVars>>
    \/ ChatEOF /\ UNCHANGED <<loadVars, laterVars>>
    \/ ChatInterrupt /\ UNCHANGED <<loadVars, laterVars>>
    \/ \E c \in LlmStreams : \E r \in SearchRankings(SearchK(NoK)) :
          StreamStart(r, c) /\ UNCHANGED <<loadVars, laterVars>>
    \/ StreamChunk /\ UNCHANGED <<loadVars, laterVars>>
    \/ StreamEnd /\ UNCHANGED <<loadVars, laterVars>>
    \/ \E e \in PipelineErrors : StreamRaise(e) /\ UNCHANGED <<loadVars, laterVars>>

SpecChat == InitChat /\ [][NextChat]_vars

(***************************************************************************)
(* scripts/ingest_documents.py: main.  The pipeline calls are those of     *)
(* RAGPipeline above; as in chat.py, a call may raise (the store or the    *)
(* embedding server is unavailable), and main has no handler.              *)
(***************************************************************************)
IngestPcs == {"idle", "start", "init", "reset", "load", "loading", "add", "stats",
              "returned", "crashed"}

\* the check of the directory that lets --reset through
DirectoryMissingUnlessReset(args) == ~args.exists /\ ~args.reset

\* if not args.directory.exists()
DirectoryMissing(args) == ~args.exists

\* a main that goes straight from the construction to the loading
AfterInitStraightToLoad(args) == "load"

\* if args.reset: rag.reset(), between the construction and the loading
AfterInit(args) == IF args.reset THEN "reset" ELSE "load"

\* a metadata dict of a loader, as the store's set of key-value pairs
MetaDict(m) ==
    {<<"source", m.source>>, <<"filename", m.filename>>, <<"file_type", m.file_type>>}

\* documents = [doc for doc, _ in docs_with_metadata]
IngestDocuments == [i \in 1..Len(documents) |-> documents[i].content]

\* metadatas = [meta for _, meta in docs_with_metadata]
IngestMetadatas ==
    [given |-> TRUE, list |-> [i \in 1..Len(documents) |-> MetaDict(documents[i].metadata)]]

\* args = parser.parse_args(); if not args.directory.exists(): print, return
IngestCheckDirectory ==
    /\ ingestPc = "start"
    /\ IF DirectoryMissing(ingestArgs)
       THEN /\ ingestOut' = Append(ingestOut, "Error: Directory does not exist")
            /\ ingestPc' = "returned"
       ELSE /\ ingestOut' = Append(ingestOut, "Initializing RAG pipeline...")
            /\ ingestPc' = "init"
    /\ UNCHANGED <<pipelineVars, loadVars, ingestArgs, ingestCalls, storeBefore>>

\* rag = RAGPipeline()
IngestInitPipeline(outcome) ==
    /\ ingestPc = "init"
    /\ ingestCalls' = Append(ingestCalls, "RAGPipeline")
    /\ IF outcome = "ok"
       THEN LET s == VectorStoreManagerInit([exists |-> collExists, docs |-> collDocs])
            IN  /\ collExists' = s.exists
                /\ collDocs' = s.docs
                /\ result' = [op |-> "init", raised |-> FALSE]
                /\ ingestPc' = AfterInit(ingestArgs)
       ELSE /\ result' = Raised("init")
            /\ ingestPc' = "crashed"
            /\ UNCHANGED <<collExists, collDocs>>
    /\ UNCHANGED <<llmCall, idsReturned, sinceFresh, afterReset, loadVars,
                   ingestArgs, ingestOut, storeBefore>>

\* print("Resetting vector store..."); rag.reset()
IngestReset(outcome) ==
    /\ ingestPc = "reset"
    /\ ingestCalls' = Append(ingestCalls, "reset")
    /\ ingestOut' = Append(ingestOut, "Resetting vector store...")
    /\ IF outcome = "ok"
       THEN /\ Reset
            /\ ingestPc' = IF result'.raised THEN "crashed" ELSE "load"
       ELSE /\ result' = Raised("reset")
            /\ ingestPc' = "crashed"
            /\ UNCHANGED <<collExists, collDocs, llmCall, idsReturned, sinceFresh,
                           afterReset>>
    /\ UNCHANGED <<loadVars, ingestArgs, storeBefore>>

\* docs_with_metadata = load_documents(args.directory, ...): the call
IngestLoad ==
    /\ ingestPc = "load"
    /\ ingestCalls' = Append(ingestCalls, "load_documents")
    /\ ingestOut' = Append(ingestOut, "Loading documents...")
    /\ loadPos' = 0 /\ documents' = <<>> /\ loadOut' = <<>>
    /\ loadPc' = "loop"
    /\ ingestPc' = "loading"
    /\ UNCHANGED <<pipelineVars, dirFiles, ingestArgs, storeBefore>>

\* load_documents has returned: if not docs_with_metadata: print, return
IngestLoaded ==
    /\ ingestPc = "loading"
    /\ loadPc \in {"returned", "raised"}
    /\ IF loadPc = "raised"
       THEN ingestPc' = "crashed" /\ UNCHANGED ingestOut
       ELSE IF documents = <<>>
       THEN /\ ingestOut' = Append(ingestOut, "No documents found!")
            /\ ingestPc' = "returned"
       ELSE /\ ingestOut' = Append(ingestOut, "Adding documents to the RAG system...")
            /\ ingestPc' = "add"
    /\ UNCHANGED <<pipelineVars, loadVars, ingestArgs, ingestCalls, storeBefore>>

\* ids = rag.add_documents(documents, metadatas)
IngestAdd(outcome) ==
    /\ ingestPc = "add"
    /\ ingestCalls' = Append(ingestCalls, "add_documents")
    /\ IF outcome = "ok"
       THEN /\ AddDocuments(IngestDocuments, IngestMetadatas)
            /\ ingestPc' = IF result'.raised THEN "crashed" ELSE "stats"
       ELSE \* the embedding of the chunks raises before anything is stored
            /\ result' = Raised("add_documents")
            /\ ingestPc' = "crashed"
            /\ UNCHANGED <<collExists, collDocs, llmCall, idsReturned, sinceFresh,
                           afterReset>>
    /\ UNCHANGED <<loadVars, ingestArgs, ingestOut, storeBefore>>

\* stats = rag.get_stats(); print("Ingestion complete!") and the numbers
IngestStats(outcome) ==
    /\ ingestPc = "stats"
    /\ ingestCalls' = Append(ingestCalls, "get_stats")
    /\ IF outcome = "ok"
       THEN /\ GetStats
            /\ IF result'.raised
               THEN ingestPc' = "crashed" /\ UNCHANGED ingestOut
               ELSE /\ ingestOut' = Append(ingestOut, "Ingestion complete!")
                    /\ ingestPc' = "returned"
       ELSE /\ result' = Raised("get_stats")
            /\ ingestPc' = "crashed"
            /\ UNCHANGED <<collExists, collDocs, llmCall, idsReturned, sinceFresh,
                           afterReset, ingestOut>>
    /\ UNCHANGED <<loadVars, ingestArgs, storeBefore>>

\* the entries of the directory given to the script
IngestEntries ==
    [suffix : {<<".", "t", "x", "t">>, <<".", "m", "d">>}, nested : {FALSE},
     outcome : {"ok", "UnicodeDecodeError"}]

\* the collection an earlier run left in the persist directory, or none
StoresBefore == {NoStore, [exists |-> TRUE, docs |-> <<>>],
                 [exists |-> TRUE, docs |-> <<OldChunk>>]}

\* ingest_documents.py <directory> [--reset]; a missing directory has no entries
InitIngest ==
    /\ ingestArgs \in [exists : BOOLEAN, reset : BOOLEAN]
    /\ dirFiles \in IF ingestArgs.exists THEN SeqsUpTo(IngestEntries, MaxFiles) ELSE {<<>>}
    /\ loadPos = 0 /\ documents = <<>> /\ loadOut = <<>> /\ loadPc = "idle"
    /\ storeBefore \in StoresBefore
    /\ collExists = storeBefore.exists /\ collDocs = storeBefore.docs
    /\ sinceFresh = (collDocs = <<>>)
    /\ result = [op |-> "none", raised |-> FALSE]
    /\ llmCall = NoCall /\ idsReturned = 0 /\ afterReset = 0
    /\ ingestPc = "start" /\ ingestOut = <<>> /\ ingestCalls = <<>>
    /\ ChatIdle /\ FileIdle /\ PdfIdle

otherThanIngest == <<chatVars, fileVars, pdfVars>>

NextIngest ==
    \/ IngestCheckDirectory /\ UNCHANGED otherThanIngest
    \/ \E o \in CallOutcomes : IngestInitPipeline(o) /\ UNCHANGED otherThanIngest
    \/ \E o \in CallOutcomes : IngestReset(o) /\ UNCHANGED otherThanIngest
    \/ IngestLoad /\ UNCHANGED otherThanIngest
    \/ LoadSkip /\ UNCHANGED <<pipelineVars, ingestVars, otherThanIngest>>
    \/ LoadFile /\ UNCHANGED <<pipelineVars, ingestVars, otherThanIngest>>
    \/ LoadFail /\ UNCHANGED <<pipelineVars, ingestVars, otherThanIngest>>
    \/ LoadReturn /\ UNCHANGED <<pipelineVars, ingestVars, otherThanIngest>>
    \/ IngestLoaded /\ UNCHANGED otherThanIngest
    \/ \E o \in CallOutcomes : IngestAdd(o) /\ UNCHANGED otherThanIngest
    \/ \E o \in CallOutcomes : IngestStats(o) /\ UNCHANGED otherThanIngest

SpecIngest == InitIngest /\ [][NextIngest]_vars

(***************************************************************************)
(* scripts/ingest_documents.py: load_docx_file and load_pptx_file.         *)
(* A Word document is its paragraphs' texts and its tables, a table its    *)
(* rows, a row its cells' texts; a presentation is its slides, a slide its *)
(* shapes, a shape with or without a text attribute.  The literal pieces   *)
(* '--- Tables ---', '--- Slide ' and ' ---' are single tokens.            *)
(***************************************************************************)
\* the bare test `if para.text`, which keeps a paragraph of spaces
HasTextUnstripped(text) == text # <<>>

\* if para.text.strip() / if row_text.strip() / shape.text.strip()
HasText(text) == Strip(text) # <<>>

\* paragraphs = [para.text for para in doc.paragraphs if para.text.strip()]
Paragraphs(doc) == SelectSeq(doc.paragraphs, HasText)

\* row_text = " | ".join(cell.text.strip() for cell in row.cells)
RowText(row) == Join([i \in 1..Len(row) |-> Strip(row[i])], <<" ", "|", " ">>)

\* the rows of one table that are appended to table_texts
RowTexts(table) == SelectSeq([i \in 1..Len(table) |-> RowText(table[i])], HasText)

\* table_texts after the loop over doc.tables
RECURSIVE TableTexts(_)
TableTexts(tables) ==
    IF tables = <<>> THEN <<>> ELSE RowTexts(Head(tables)) \o TableTexts(Tail(tables))

\* "\n--- Tables ---\n"
TablesMarker == <<"\n", "--- Tables ---", "\n">>

\* content_parts, which is the list paragraphs itself, after the append and
\* the extend
ContentParts(doc) ==
    LET table_texts == TableTexts(doc.tables)
    IN  IF table_texts # <<>>
        THEN Paragraphs(doc) \o <<TablesMarker>> \o table_texts
        ELSE Paragraphs(doc)

\* load_docx_file; len(paragraphs) is taken after content_parts was filled
LoadDocx(doc) ==
    [returned |-> TRUE,
     content |-> Join(ContentParts(doc), <<"\n", "\n">>),
     metadata |-> [file_type |-> <<"d", "o", "c", "x">>,
                   num_paragraphs |-> Len(ContentParts(doc)),
                   num_tables |-> Len(doc.tables)]]

\* hasattr(shape, "text") and shape.text.strip()
ShapeHasText(shape) == shape.has_text /\ HasText(shape.text)

\* slide_texts: the stripped texts of the shapes that have one
SlideTexts(slide) ==
    LET shapes == SelectSeq(slide, ShapeHasText)
    IN  [i \in 1..Len(shapes) |-> Strip(shapes[i].text)]

\* numbering that counts the slides with text only
SlideNumAmongEmitted(slides, i) ==
    Cardinality({j \in 1..i : SlideTexts(slides[j]) # <<>>})

\* slide_num of enumerate(prs.slides, start=1)
SlideNum(slides, i) == i

\* f"--- Slide {slide_num} ---\n" + "\n\n".join(slide_texts)
SlideContent(slide_num, slide_texts) ==
    <<"--- Slide ", ToString(slide_num), " ---", "\n">> \o Join(slide_texts, <<"\n", "\n">>)

\* slide_contents after the first n slides
RECURSIVE SlideContents(_, _)
SlideContents(slides, n) ==
    IF n = 0 THEN <<>>
    ELSE LET slide_texts == SlideTexts(slides[n])
         IN  IF slide_texts # <<>>
             THEN Append(SlideContents(slides, n - 1),
                         SlideContent(SlideNum(slides, n), slide_texts))
             ELSE SlideContents(slides, n - 1)

\* load_pptx_file
LoadPptx(prs) ==
    [returned |-> TRUE,
     content |-> Join(SlideContents(prs.slides, Len(prs.slides)), <<"\n", "\n">>),
     metadata |-> [file_type |-> <<"p", "p", "t", "x">>,
                   num_slides |-> Len(prs.slides)]]

\* the texts of paragraphs: empty, blank, with text, with text and spaces
ParagraphTexts == {<<>>, <<" ">>, <<"p">>, <<" ", "q", " ">>}

\* table rows: one blank cell, two blank cells, a cell with text, text and a
\* blank cell, three empty cells
Rows == {<<<<" ">>>>, <<<<" ">>, <<>>>>, <<<<"c">>>>, <<<<" ", "d">>, <<>>>>,
         <<<<>>, <<>>, <<>>>>}

\* tables of up to two rows, documents of up to two tables
Tables == SeqsUpTo(Rows, 2)
DocxFiles ==
    [kind : {"docx"}, paragraphs : SeqsUpTo(ParagraphTexts, MaxParagraphs),
     tables : SeqsUpTo(Tables, 2)]

\* shapes: a picture (no text attribute), a blank text box, two with text
Shapes == {[has_text |-> FALSE, text |-> <<"s">>], [has_text |-> TRUE, text |-> <<" ">>],
           [has_text |-> TRUE, text |-> <<"s">>],
           [has_text |-> TRUE, text |-> <<" ", "t", "\n">>]}

\* slides of up to two shapes
Slides == SeqsUpTo(Shapes, 2)
PptxFiles == [kind : {"pptx"}, slides : SeqsUpTo(Slides, MaxSlides)]

\* content, metadata = load_docx_file(file_path)
LoadDocxFile ==
    /\ docFile.kind = "docx" /\ ~loaded.returned
    /\ loaded' = LoadDocx(docFile)
    /\ UNCHANGED docFile

\* content, metadata = load_pptx_file(file_path)
LoadPptxFile ==
    /\ docFile.kind = "pptx" /\ ~loaded.returned
    /\ loaded' = LoadPptx(docFile)
    /\ UNCHANGED docFile

\* a loader is called on a file that python-docx or python-pptx can open
InitFile ==
    /\ docFile \in DocxFiles \cup PptxFiles
    /\ loaded = NotReturned
    /\ PipelineIdle /\ LoadIdle /\ ChatIdle /\ IngestIdle /\ PdfIdle

otherThanFile == <<pipelineVars, loadVars, chatVars, ingestVars, pdfVars>>

NextFile ==
    \/ LoadDocxFile /\ UNCHANGED otherThanFile
    \/ LoadPptxFile /\ UNCHANGED otherThanFile

SpecFile == InitFile /\ [][NextFile]_vars

(***************************************************************************)
(* src/local_rag/pdf_processor.py.  pdfplumber is modelled by what         *)
(* extract_words returns: for each page the list of words, each with its   *)
(* text, x0, x1, top, bottom, fontname and size.  Coordinates and sizes    *)
(* are integers; an average of sizes is kept as an exact fraction.         *)
(***************************************************************************)
Max(a, b) == IF a >= b THEN a ELSE b
Abs(a) == IF a >= 0 THEN a ELSE 0 - a

RECURSIVE Gcd(_, _)
Gcd(a, b) == IF b = 0 THEN a ELSE Gcd(b, a % b)

\* the fraction n / d in lowest terms (n >= 0, d > 0)
Frac(n, d) == LET g == Gcd(n, d) IN [num |-> n \div g, den |-> d \div g]
FracAdd(a, b) == Frac(a.num * b.den + b.num * a.den, a.den * b.den)
FracGreater(a, n) == a.num > n * a.den

\* the 5 of `abs(bbox.y0 - current_line_bbox.y0) < 5`
LineTolerance == 5

\* BoundingBox(x0=word["x0"], y0=word["top"], x1=word["x1"], y1=word["bottom"], ...)
WordBbox(word) ==
    [x0 |-> word.x0, y0 |-> word.top, x1 |-> word.x1, y1 |-> word.bottom,
     width |-> word.x1 - word.x0, height |-> word.bottom - word.top]

\* the expanded box that keeps the new word's x1 and y1 instead of the maxima
ExpandKeepsLast(line, bbox) ==
    [x0 |-> Min(line.x0, bbox.x0), y0 |-> Min(line.y0, bbox.y0),
     x1 |-> bbox.x1, y1 |-> bbox.y1,
     width |-> bbox.x1 - Min(line.x0, bbox.x0),
     height |-> bbox.y1 - Min(line.y0, bbox.y0)]

\* current_line_bbox = BoundingBox(x0=min(...), y0=min(...), x1=max(...), ...)
Expand(line, bbox) ==
    [x0 |-> Min(line.x0, bbox.x0), y0 |-> Min(line.y0, bbox.y0),
     x1 |-> Max(line.x1, bbox.x1), y1 |-> Max(line.y1, bbox.y1),
     width |-> Max(line.x1, bbox.x1) - Min(line.x0, bbox.x0),
     height |-> Max(line.y1, bbox.y1) - Min(line.y0, bbox.y0)]

\* the test without abs: a word far above the line joins it
SameLineNoAbs(line_bbox, bbox) ==
    line_bbox # <<>> /\ bbox.y0 - line_bbox[1].y0 < LineTolerance

\* current_line_bbox and abs(bbox.y0 - current_line_bbox.y0) < 5
SameLine(line_bbox, bbox) ==
    line_bbox # <<>> /\ Abs(bbox.y0 - line_bbox[1].y0) < LineTolerance

\* "bold" in font_name.lower(), "italic" in font_name.lower()
IsBoldFont(font_name) == font_name \in {"Arial-Bold", "Times-BoldItalic"}
IsItalicFont(font_name) == font_name \in {"Times-Italic", "Times-BoldItalic"}

\* sum(w.get("size", 0) for w in current_line_words)
RECURSIVE SumSizes(_)
SumSizes(words) == IF words = <<>> THEN 0 ELSE Head(words).size + SumSizes(Tail(words))

\* TextElement(text=line_text, bbox=current_line_bbox, page_number=page_num, ...)
LineElement(words, bbox, page_num) ==
    [text |-> Join([i \in 1..Len(words) |-> words[i].text], <<" ">>),
     bbox |-> bbox,
     page_number |-> page_num,
     font_size |-> Frac(SumSizes(words), Len(words)),
     font_name |-> words[1].fontname,
     is_bold |-> IsBoldFont(words[1].fontname),
     is_italic |-> IsItalicFont(words[1].fontname)]

\* "New line - save previous line if exists"
SavePrevious(elems, words, line_bbox, page_num) ==
    IF words # <<>> THEN Append(elems, LineElement(words, line_bbox[1], page_num)) ELSE elems

\* a loop that forgets the line still open at the end of the page
SaveLastForgotten(elems, words, line_bbox, page_num) == elems

\* "Don't forget the last line"
SaveLast(elems, words, line_bbox, page_num) ==
    IF words # <<>> THEN Append(elems, LineElement(words, line_bbox[1], page_num)) ELSE elems

\* for page_num, page in enumerate(pdf.pages, start=1): the next page is
\* opened, or the loop is over and elements is returned
PdfNextPage ==
    /\ pdfPc = "page"
    /\ IF pageNum < Len(pdfPages)
       THEN /\ pageNum' = pageNum + 1
            /\ wordPos' = 0
            /\ current_line_words' = <<>>
            /\ current_line_bbox' = <<>>
            /\ pdfPc' = "words"
       ELSE /\ pdfPc' = "extracted"
            /\ UNCHANGED <<pageNum, wordPos, current_line_words, current_line_bbox>>
    /\ UNCHANGED <<preserve_layout, pdfPages, elements, pdfResult>>

\* for word in words: one pass of the loop body
PdfWord ==
    /\ pdfPc = "words"
    /\ wordPos < Len(pdfPages[pageNum])
    /\ LET word == pdfPages[pageNum][wordPos + 1]
           bbox == WordBbox(word)
       IN  IF SameLine(current_line_bbox, bbox)
           THEN /\ current_line_words' = Append(current_line_words, word)
                /\ current_line_bbox' = <<Expand(current_line_bbox[1], bbox)>>
                /\ UNCHANGED elements
           ELSE /\ elements' = SavePrevious(elements, current_line_words,
                                            current_line_bbox, pageNum)
                /\ current_line_words' = <<word>>
                /\ current_line_bbox' = <<bbox>>
    /\ wordPos' = wordPos + 1
    /\ UNCHANGED <<preserve_layout, pdfPages, pageNum, pdfPc, pdfResult>>

\* the words of the page are exhausted: the last line is saved
PdfEndPage ==
    /\ pdfPc = "words"
    /\ wordPos = Len(pdfPages[pageNum])
    /\ elements' = SaveLast(elements, current_line_words, current_line_bbox, pageNum)
    /\ pdfPc' = "page"
    /\ UNCHANGED <<preserve_layout, pdfPages, pageNum, wordPos, current_line_words,
                   current_line_bbox, pdfResult>>

\* TextElement.position_context
PositionContext(element) ==
    LET v_pos == IF element.bbox.y0 < 100 THEN "top"
                 ELSE IF element.bbox.y0 > 600 THEN "bottom" ELSE "middle"
        h_pos == IF element.bbox.x0 < 200 THEN "left"
                 ELSE IF element.bbox.x0 > 400 THEN "right" ELSE "center"
    IN  <<v_pos, "-", h_pos>>

\* len(text.split()): the number of runs of characters that are not whitespace
RECURSIVE CountWords(_)
CountWords(text) ==
    IF text = <<>> THEN 0
    ELSE IF IsSpace(Head(text)) THEN CountWords(Tail(text))
    ELSE IF Len(text) > 1 /\ ~IsSpace(text[2]) THEN CountWords(Tail(text))
    ELSE 1 + CountWords(Tail(text))

\* a float is truthy unless it is zero
Nonzero(fraction) == fraction.num # 0

\* TextElement.is_likely_heading
IsLikelyHeading(element) ==
    \/ Nonzero(element.font_size) /\ FracGreater(element.font_size, 12)
    \/ element.is_bold /\ CountWords(element.text) < 10

\* f"{x:.1f}" of a fraction: the nearest tenth
FormatTenths(fraction) ==
    LET tenths == (20 * fraction.num + fraction.den) \div (2 * fraction.den)
    IN  <<ToString(tenths \div 10), ".", ToString(tenths % 10)>>

\* the annotations with the bounding box put before the styling entries
AnnotationsBboxBeforeStyle(element) ==
    <<<<"position:">> \o PositionContext(element)>>
    \o (IF IsLikelyHeading(element) THEN <<<<"type:heading">>>> ELSE <<>>)
    \o (IF Nonzero(element.font_size)
        THEN <<<<"size:">> \o FormatTenths(element.font_size)>> ELSE <<>>)
    \o << <<"bbox:[", ToString(element.bbox.x0), ",", ToString(element.bbox.y0), ",",
            ToString(element.bbox.x1), ",", ToString(element.bbox.y1), "]">> >>
    \o (IF element.is_bold THEN <<<<"style:bold">>>> ELSE <<>>)
    \o (IF element.is_italic THEN <<<<"style:italic">>>> ELSE <<>>)

\* the list annotations of one element
Annotations(element) ==
    <<<<"position:">> \o PositionContext(element)>>
    \o (IF IsLikelyHeading(element) THEN <<<<"type:heading">>>> ELSE <<>>)
    \o (IF Nonzero(element.font_size)
        THEN <<<<"size:">> \o FormatTenths(element.font_size)>> ELSE <<>>)
    \o (IF element.is_bold THEN <<<<"style:bold">>>> ELSE <<>>)
    \o (IF element.is_italic THEN <<<<"style:italic">>>> ELSE <<>>)
    \o << <<"bbox:[", ToString(element.bbox.x0), ",", ToString(element.bbox.y0), ",",
            ToString(element.bbox.x1), ",", ToString(element.bbox.y1), "]">> >>

\* the part appended for one element: f"[{context}]\n{element.text}\n\n", or
\* f"{element.text}\n"
FormatElement(element, preserve) ==
    IF preserve
    THEN <<"[">> \o Join(Annotations(element), <<" ", "|", " ">>) \o <<"]", "\n">>
         \o element.text \o <<"\n", "\n">>
    ELSE element.text \o <<"\n">>

\* the 80 of "=" * 80
SeparatorWidth == 80

\* "\n" + "=" * 80 + "\n"
PageSeparator == <<"\n">> \o [i \in 1..SeparatorWidth |-> "="] \o <<"\n">>

\* f"[PAGE {element.page_number}]\n\n"
PageHeader(page_number) == <<"[PAGE ", ToString(page_number), "]", "\n", "\n">>

\* formatted_parts after the first n elements; current_page is the page of
\* the element before, None before the first
RECURSIVE FormattedParts(_, _, _)
FormattedParts(elems, n, preserve) ==
    IF n = 0 THEN <<>>
    ELSE LET element == elems[n]
             page_parts ==
                 IF n = 1 THEN <<PageHeader(element.page_number)>>
                 ELSE IF element.page_number # elems[n - 1].page_number
                 THEN <<PageSeparator, PageHeader(element.page_number)>>
                 ELSE <<>>
         IN  FormattedParts(elems, n - 1, preserve) \o page_parts
             \o <<FormatElement(element, preserve)>>

\* format_with_layout_context: "".join(formatted_parts)
FormatWithLayoutContext(elems, preserve) ==
    Concat(FormattedParts(elems, Len(elems), preserve))

\* num_pages taken as the highest page number seen
NumPagesAsHighest(elems) == IF elems = <<>> THEN 0 ELSE elems[Len(elems)].page_number

\* len(set(e.page_number for e in elements))
NumPages(elems) == Cardinality({elems[i].page_number : i \in 1..Len(elems)})

\* sum(e.font_size for e in elements if e.font_size)
RECURSIVE SumFontSizes(_)
SumFontSizes(elems) ==
    IF elems = <<>> THEN Frac(0, 1)
    ELSE IF Nonzero(Head(elems).font_size)
    THEN FracAdd(Head(elems).font_size, SumFontSizes(Tail(elems)))
    ELSE SumFontSizes(Tail(elems))

\* process_pdf, after extract_text_elements has returned: the formatted
\* text and the metadata
ProcessPdf ==
    /\ pdfPc = "extracted"
    /\ pdfResult' =
          [returned |-> TRUE,
           content |-> FormatWithLayoutContext(elements, preserve_layout),
           metadata |->
              [num_pages |-> NumPages(elements),
               file_type |-> <<"p", "d", "f">>,
               num_text_elements |-> Len(elements),
               num_headings |-> Cardinality({i \in 1..Len(elements) :
                                                IsLikelyHeading(elements[i])}),
               avg_font_size |->
                  IF elements # <<>>
                  THEN LET total == SumFontSizes(elements)
                       IN  Frac(total.num, total.den * Len(elements))
                  ELSE Frac(0, 1),
               layout_preserved |-> preserve_layout]]
    /\ pdfPc' = "returned"
    /\ UNCHANGED <<preserve_layout, pdfPages, pageNum, wordPos, current_line_words,
                   current_line_bbox, elements>>

\* the words pdfplumber finds: three words whose tops are 4 units apart
Words ==
    {[text |-> <<"a">>, x0 |-> 1, x1 |-> 3, top |-> 8, bottom |-> 10,
      fontname |-> "Arial-Bold", size |-> 14],
     [text |-> <<"b">>, x0 |-> 4, x1 |-> 6, top |-> 4, bottom |-> 7,
      fontname |-> "Times-Italic", size |-> 10],
     [text |-> <<"c">>, x0 |-> 0, x1 |-> 2, top |-> 0, bottom |-> 2,
      fontname |-> "Helvetica", size |-> 12]}

\* the non-decreasing ways to cut a list of len words into n pages
PageCuts(len, n) ==
    {c \in [1..n -> 0..len] :
        /\ n > 0 => c[n] = len
        /\ \A i \in 1..n : i > 1 => c[i - 1] <= c[i]}

\* the pages of a PDF: up to MaxPages pages holding up to MaxWords words
PdfFiles ==
    UNION {UNION {{[i \in 1..n |->
                      SubSeq(ws, (IF i = 1 THEN 0 ELSE c[i - 1]) + 1, c[i])] :
                   c \in PageCuts(Len(ws), n)} :
                  ws \in {w \in SeqsUpTo(Words, MaxWords) : n > 0 \/ w = <<>>}} :
           n \in 0..MaxPages}

\* process_pdf(pdf_path) is called on a PDF that pdfplumber can open
InitPdf ==
    /\ preserve_layout \in BOOLEAN
    /\ pdfPages \in PdfFiles
    /\ pageNum = 0 /\ wordPos = 0
    /\ current_line_words = <<>> /\ current_line_bbox = <<>>
    /\ elements = <<>> /\ pdfPc = "page" /\ pdfResult = NotReturned
    /\ PipelineIdle /\ LoadIdle /\ ChatIdle /\ IngestIdle /\ FileIdle

otherThanPdf == <<pipelineVars, loadVars, chatVars, ingestVars, fileVars>>

NextPdf ==
    \/ PdfNextPage /\ UNCHANGED otherThanPdf
    \/ PdfWord /\ UNCHANGED otherThanPdf
    \/ PdfEndPage /\ UNCHANGED otherThanPdf
    \/ ProcessPdf /\ UNCHANGED otherThanPdf

SpecPdf == InitPdf /\ [][NextPdf]_vars

(***************************************************************************)
(* format_with_layout_context called with a list of elements of the        *)
(* caller's making (specification SpecFormat).                             *)
(***************************************************************************)
\* TextElement objects: the one-word lines of the pages, and on every page
\* an element built with the defaults (no font size, no font name, neither
\* bold nor italic)
TextElements ==
    {LineElement(<<w>>, WordBbox(w), p) : w \in Words, p \in 1..MaxPages}
    \cup {[text |-> <<"d", " ", "e">>,
           bbox |-> [x0 |-> 250, y0 |-> 650, x1 |-> 300, y1 |-> 660,
                     width |-> 50, height |-> 10],
           page_number |-> p,
           font_size |-> Frac(0, 1),
           font_name |-> "",
           is_bold |-> FALSE,
           is_italic |-> FALSE] : p \in 1..MaxPages}

\* a processor is built with preserve_layout and is about to be handed up to
\* three elements, whose pages need not be in order
InitFormat ==
    /\ preserve_layout \in BOOLEAN
    /\ elements \in SeqsUpTo(TextElements, 3)
    /\ pdfPages = <<>> /\ pageNum = 0 /\ wordPos = 0
    /\ current_line_words = <<>> /\ current_line_bbox = <<>>
    /\ pdfPc = "format" /\ pdfResult = NotReturned
    /\ PipelineIdle /\ LoadIdle /\ ChatIdle /\ IngestIdle /\ FileIdle

\* processor.format_with_layout_context(elements)
CallFormatWithLayoutContext ==
    /\ pdfPc = "format"
    /\ pdfResult' = [returned |-> TRUE,
                     content |-> FormatWithLayoutContext(elements, preserve_layout)]
    /\ pdfPc' = "formatted"
    /\ UNCHANGED <<preserve_layout, pdfPages, pageNum, wordPos, current_line_words,
                   current_line_bbox, elements>>

NextFormat == CallFormatWithLayoutContext /\ UNCHANGED otherThanPdf

SpecFormat == InitFormat /\ [][NextFormat]_vars

(***************************************************************************)
(* Claims about the pipeline's store (specification Spec).                 *)
(***************************************************************************)
IsAdd == result.op = "add_documents"

\* s contains a character that is not whitespace
NonBlank(s) == Strip(s) # <<>>

AllDocs(P(_)) == \A i \in 1..Len(result.documents) : P(result.documents[i])

\* the chunks of split that come from document i, in order
ChunksOf(split, i) ==
    LET fromI(c) == c.doc_index = i
        sel == SelectSeq(split, fromI)
    IN  [j \in 1..Len(sel) |-> sel[j].page_content]

\* C1: after any sequence of add_documents and reset calls, reset() succeeds
\* and leaves the collection existing and empty; the next get_stats()
\* succeeds and reports num_documents == 0; and a following add_documents
\* that has a chunk to add succeeds and stores exactly its chunks in the
\* re-created collection.
C1_ResetThenStatsThenAdd ==
    /\ result.op = "reset" => ~result.raised /\ collExists /\ collDocs = <<>>
    /\ afterReset = 2 =>
          result.op = "get_stats" /\ ~result.raised /\ result.num_documents = 0
    /\ afterReset = 3 =>
          /\ IsAdd
          /\ result.split # <<>> =>
                /\ ~result.raised
                /\ Len(result.ids) = Len(result.split)
                /\ collDocs = Stored(result.split)

C1_Witness ==
    afterReset = 3 /\ ~result.raised /\ Len(collDocs) = 2

\* C2 (amended): between resets num_documents equals the number of IDs
\* returned by add_documents since the last reset (zero for a fresh or
\* just-reset store); adding a non-empty list of documents that each contain
\* a non-whitespace character returns at least one ID and makes
\* num_documents > 0.
C2_CountIsIdsReturned ==
    /\ sinceFresh => Len(collDocs) = idsReturned
    /\ sinceFresh /\ result.op = "get_stats" /\ ~result.raised =>
          result.num_documents = idsReturned
    /\ IsAdd /\ result.documents # <<>> /\ AllDocs(NonBlank) =>
          ~result.raised /\ Len(result.ids) >= 1 /\ Len(collDocs) > 0

C2_Witness ==
    /\ IsAdd /\ Len(result.documents) = 1 /\ AllDocs(NonBlank)
    /\ sinceFresh /\ idsReturned = 2 /\ Len(result.ids) = 1

\* C2 as stated: ... adding a non-empty list of non-empty documents returns
\* at least one ID and makes num_documents > 0.
C2_AsStated ==
    /\ sinceFresh => Len(collDocs) = idsReturned
    /\ sinceFresh /\ result.op = "get_stats" /\ ~result.raised =>
          result.num_documents = idsReturned
    /\ IsAdd /\ result.documents # <<>> /\ AllDocs(NonEmpty) =>
          ~result.raised /\ Len(result.ids) >= 1 /\ Len(collDocs) > 0

EqualLengths ==
    result.metadatas.given /\ Len(result.metadatas.list) = Len(result.documents)

\* every chunk of the i-th document carries the i-th metadata, every chunk
\* of every document is there, and the chunks are what the collection got
MetadataAttached ==
    /\ \A j \in 1..Len(result.split) :
          result.split[j].metadata = result.metadatas.list[result.split[j].doc_index]
    /\ \A i \in 1..Len(result.documents) :
          ChunksOf(result.split, i) = SplitText(result.documents[i])
    /\ ~result.raised =>
          /\ Len(result.ids) = Len(result.split)
          /\ SubSeq(collDocs, Len(collDocs) - Len(result.split) + 1, Len(collDocs))
                = Stored(result.split)

FitsChunk(s) == Len(s) <= ChunkSize

NonBlankFitsChunk(s) == NonBlank(s) /\ FitsChunk(s)

NonEmptyFitsChunk(s) == NonEmpty(s) /\ FitsChunk(s)

\* C5 (amended): add_documents(documents, metadatas) with non-empty lists of
\* equal length attaches the i-th metadata to every chunk of the i-th
\* document and, when every document contains a non-whitespace character and
\* is no longer than chunk_size, returns exactly len(documents) IDs.
C5_MetadataPerDocument ==
    IsAdd /\ EqualLengths /\ result.documents # <<>> =>
        /\ MetadataAttached
        /\ AllDocs(NonBlankFitsChunk) =>
              ~result.raised /\ Len(result.ids) = Len(result.documents)

C5_Witness ==
    /\ IsAdd /\ EqualLengths /\ Len(result.documents) = 2 /\ ~result.raised
    /\ AllDocs(NonBlankFitsChunk)
    /\ collDocs[Len(collDocs)].metadata = Meta(2)
    /\ collDocs[Len(collDocs) - 1].metadata = Meta(1)

\* C5 as stated: lists of equal length; every document non-empty and no
\* longer than chunk_size.
C5_AsStated ==
    IsAdd /\ EqualLengths =>
        /\ MetadataAttached
        /\ AllDocs(NonEmptyFitsChunk) =>
              ~result.raised /\ Len(result.ids) = Len(result.documents)

(***************************************************************************)
(* Claims about retrieval and generation (specification SpecQuery).        *)
(***************************************************************************)
IsQuery == result.op \in {"query", "query_with_scores"}

\* the documents of the result's context, whichever the call
ContextDocs == IF result.op = "query" THEN result.context
               ELSE [i \in 1..Len(result.context) |-> result.context[i][1]]

\* C3: when the store holds at least k chunks, query and query_with_scores
\* return exactly k context documents for every k >= 1; when k is omitted,
\* settings.top_k is used as k.
C3_ExactlyKDocuments ==
    IsQuery =>
        /\ result.k # NoK /\ result.k[1] >= 1 /\ Len(collDocs) >= result.k[1] =>
              Len(result.context) = result.k[1] /\ result.num_context_docs = result.k[1]
        /\ result.k = NoK =>
              /\ Len(result.context) = Min(TopK, Len(collDocs))
              /\ Len(collDocs) >= TopK => result.num_context_docs = TopK

C3_Witness ==
    /\ result.op = "query_with_scores" /\ result.k = <<1>>
    /\ Len(collDocs) = 2 /\ Len(result.context) = 1

\* C4: the result's question is the input question unchanged (the question
\* the prompt was built from), num_context_docs is the length of context,
\* and the answer is the LLM's response to the prompt built from exactly the
\* retrieved documents in retrieval order; for query_with_scores context
\* holds (document, score) pairs and the prompt is built from the documents
\* of those pairs in the same order.
C4_ResultMatchesRetrieval ==
    IsQuery =>
        /\ result.num_context_docs = Len(result.context)
        /\ result.answer = llmCall.response
        /\ llmCall.prompt = GeneratePrompt(result.question, ContextDocs)
        /\ result.op = "query_with_scores" =>
              \A i \in 1..Len(result.context) : Len(result.context[i]) = 2

C4_Witness ==
    /\ result.op = "query_with_scores" /\ Len(result.context) = 2
    /\ result.context[1][1].page_content = <<"a", "b">>
    /\ result.context[2][1].page_content = <<"a">>
    /\ result.question = <<" ", "w">>

(***************************************************************************)
(* Claims about load_documents (specification SpecLoad).                   *)
(***************************************************************************)
\* the entries among the first n that have a supported suffix (compared
\* case-insensitively) and load without error, in order
RECURSIVE LoadableUpTo(_)
LoadableUpTo(n) ==
    IF n = 0 THEN <<>>
    ELSE IF /\ Lower(dirFiles[n].suffix) \in SupportedExtensions
            /\ dirFiles[n].outcome = "ok"
         THEN Append(LoadableUpTo(n - 1), n)
         ELSE LoadableUpTo(n - 1)

\* the entries the documents built so far come from
Sources == [j \in 1..Len(documents) |-> documents[j].metadata.source]

\* C7: load_documents returns exactly one entry for each file under the
\* directory, nested or not, whose suffix compared case-insensitively is
\* .txt, .pdf, .docx or .pptx and which loads without error; a file with any
\* other suffix never produces an entry; each entry's file_type matches the
\* file's lower-cased suffix.
C7_OneEntryPerLoadableFile ==
    /\ Sources = LoadableUpTo(loadPos)
    /\ loadPc = "returned" => loadPos = Len(dirFiles)
    /\ \A j \in 1..Len(documents) :
          <<".">> \o documents[j].metadata.file_type
             = Lower(dirFiles[documents[j].metadata.source].suffix)

C7_Witness ==
    /\ loadPc = "returned" /\ Len(dirFiles) = 2 /\ Len(documents) = 2
    /\ dirFiles[1].suffix = <<".", "T", "X", "T">> /\ dirFiles[1].nested
    /\ dirFiles[2].suffix = <<".", "P", "p", "t", "x">>

\* C8: a file whose loader raises is skipped: an 'Error loading' line is
\* printed for it, no entry is added for it, every other supported file is
\* still loaded, and load_documents itself does not raise.
C8_FailingFileIsSkipped ==
    /\ loadPc # "raised"
    /\ \A i \in 1..loadPos :
          IsSupported(dirFiles[i].suffix) =>
             IF dirFiles[i].outcome = "ok"
             THEN Cardinality({j \in 1..Len(documents) : Sources[j] = i}) = 1
             ELSE /\ \E l \in 1..Len(loadOut) : loadOut[l] = <<"Error loading ", i>>
                  /\ \A j \in 1..Len(documents) : Sources[j] # i
    /\ loadPc = "returned" => loadPos = Len(dirFiles)

C8_Witness ==
    /\ loadPc = "returned" /\ Len(dirFiles) = 2
    /\ dirFiles[1].outcome = "UnicodeDecodeError" /\ IsSupported(dirFiles[1].suffix)
    /\ Len(documents) = 1 /\ Sources[1] = 2
    /\ loadOut[1] = <<"Error loading ", 1>>

(***************************************************************************)
(* Claims about the chat program (specification SpecChat).                 *)
(***************************************************************************)
IsChunk(piece) == piece.kind = "chunk"

\* the chunks printed for the current answer, in order
PrintedChunks ==
    LET sel == SelectSeq(chatOut, IsChunk)
    IN  [i \in 1..Len(sel) |-> sel[i].text]

HasPrinted(kind) == \E i \in 1..Len(chatOut) : chatOut[i].kind = kind

\* the answer has been streamed to its end
AnswerComplete ==
    /\ result.op = "query_stream" /\ result.started /\ ~result.raised
    /\ chatPc = "prompt" /\ chatOut # <<>> /\ chatOut[Len(chatOut)].kind = "\n"

\* C6: query_stream yields exactly the chunks the LLM streams for the prompt
\* built from the retrieved documents, in order, none dropped, duplicated or
\* altered; the chat loop prints them in that order, so the printed answer
\* is the concatenation of the chunks.
C6_StreamForwarded ==
    result.op = "query_stream" =>
        /\ PrintedChunks = result.yielded
        /\ result.started =>
              /\ llmCall.prompt = GeneratePrompt(result.question, result.context)
              /\ Len(result.context) = Min(TopK, Len(collDocs))
              /\ result.yielded = SubSeq(llmCall.response, 1, result.consumed)
        /\ ~result.started => result.yielded = <<>>
        /\ AnswerComplete =>
              /\ result.yielded = llmCall.response
              /\ Concat(PrintedChunks) = Concat(llmCall.response)

C6_Witness ==
    /\ AnswerComplete
    /\ llmCall.response = <<<<"n", "o">>, <<"y">>>>
    /\ Concat(PrintedChunks) = <<"n", "o", "y">>
    /\ Len(result.context) = 2

\* C9: an exception raised while retrieving context for, or streaming the
\* answer to, a question is caught, an error message is printed, and the
\* loop prompts for the next input; the session does not end.
C9_QueryErrorKeepsSession ==
    result.op = "query_stream" /\ result.raised =>
        /\ chatPc = "prompt"
        /\ HasPrinted("Error generating response")
        /\ exitCode = -1

C9_Witness ==
    /\ result.op = "query_stream" /\ result.raised /\ chatPc = "prompt"
    /\ result.consumed = 1 /\ PrintedChunks = <<<<"y">>>>
    /\ chatOut[Len(chatOut)].kind = "Error generating response"

\* C10 as stated: every exception raised by a pipeline call made from main
\* is caught at the CLI and printed; none propagates out of main().
C10_AsStated ==
    result.raised =>
        /\ chatPc # "crashed"
        /\ \/ HasPrinted("Error generating response")
           \/ HasPrinted("Error initializing RAG system")

\* the line typed, trimmed and lower-cased, is one the program takes as given
Typed(input, lines) == input.kind = "line" /\ Lower(Strip(input.text)) \in lines
StartsWithSlash(input) == input.kind = "line" /\ IsCommand(Strip(input.text))
ChatEnded == chatPc \in {"returned", "exited", "crashed"}
Querying == result.op = "query_stream" \/ chatPc \in {"query", "streaming"}

\* C11 as stated: once entered, the chat loop ends only on /quit, /exit or /q
\* (any letter case, trimmed) or on end of input; an input starting with '/'
\* is never sent to the RAG query, an empty input issues no query, and
\* /stats, /help, /h and unknown commands return to the prompt.
C11_AsStated ==
    session.entered =>
        /\ ChatEnded => session.input = EndOfInput \/ Typed(session.input, QuitCommands)
        /\ StartsWithSlash(session.input) => ~Querying
        /\ Typed(session.input, {<<>>}) => ~Querying
        /\ StartsWithSlash(session.input) /\ ~Typed(session.input, QuitCommands)
              => chatPc = "prompt"

\* C12 as stated: when the pipeline's construction fails the process exits
\* with status 1 and the loop is not entered; over a store with zero
\* documents the loop is entered only on the answer 'y' (any case, trimmed),
\* and otherwise the process exits with status 0 and no query is issued.
C12_AsStated ==
    /\ result.op = "init" /\ result.raised =>
          chatPc = "exited" /\ exitCode = 1 /\ ~session.entered /\ ~queried
    /\ collDocs = <<>> /\ session.entered => Typed(session.answer, {<<"y">>})
    /\ collDocs = <<>> /\ ChatEnded /\ ~session.entered /\ result.op # "init" =>
          chatPc = "exited" /\ exitCode = 0 /\ ~queried

(***************************************************************************)
(* Claims about the ingestion program (specification SpecIngest).          *)
(***************************************************************************)
Called(op) == \E i \in 1..Len(ingestCalls) : ingestCalls[i] = op
CallPos(op) == CHOOSE i \in 1..Len(ingestCalls) : ingestCalls[i] = op
CalledBefore(a, b) == Called(a) /\ Called(b) /\ CallPos(a) < CallPos(b)
HasReturned(op) == Called(op) /\ ~(result.op = op /\ result.raised)

\* one chunk for each loaded document (each fits in a chunk), with its metadata
LoadedChunks ==
    [i \in 1..Len(documents) |->
        [page_content |-> documents[i].content,
         metadata |-> MetaDict(documents[i].metadata)]]

\* the chunks this run of main has added to the store
AddedByRun == IF HasReturned("add_documents") THEN LoadedChunks ELSE <<>>

IsPrefix(a, b) == Len(a) <= Len(b) /\ SubSeq(b, 1, Len(a)) = a

IngestOrder ==
    /\ Called("load_documents") /\ ingestArgs.reset => CalledBefore("reset", "load_documents")
    /\ Called("add_documents") /\ ingestArgs.reset => CalledBefore("reset", "add_documents")
    /\ ingestPc = "returned" /\ documents = <<>> => ~Called("add_documents")
    /\ ~ingestArgs.reset => ~Called("reset") /\ IsPrefix(storeBefore.docs, collDocs)

\* C13 (amended): with --reset and a directory that exists, main resets the
\* vector store before any document is loaded or added, so once the reset
\* has returned the store contains exactly the chunks added by that run
\* (none, with add_documents never called, when no document could be
\* loaded), and a run that returns has reset the store; without --reset the
\* store is never reset.
C13_ResetBeforeLoading ==
    /\ IngestOrder
    /\ ingestArgs.reset /\ HasReturned("reset") => collDocs = AddedByRun
    /\ ingestArgs.reset /\ ingestArgs.exists /\ ingestPc = "returned" =>
          HasReturned("reset") /\ collDocs = AddedByRun

C13_Witness ==
    /\ ingestArgs.reset /\ ingestPc = "returned"
    /\ storeBefore.docs = <<OldChunk>>
    /\ Len(documents) = 2 /\ collDocs = LoadedChunks
    /\ ingestCalls = <<"RAGPipeline", "reset", "load_documents", "add_documents", "get_stats">>

\* C13 as stated: with --reset, after a run the store contains exactly the
\* chunks added by that run, whatever the directory argument is.
C13_AsStated ==
    /\ IngestOrder
    /\ ingestArgs.reset /\ ingestPc = "returned" => collDocs = AddedByRun

\* C14: called with a directory that does not exist, main prints an error
\* and returns; it does not construct the pipeline, reset the store or add
\* anything, with or without --reset, and the store is left as it was.
C14_MissingDirectoryLeavesStore ==
    ~ingestArgs.exists =>
        /\ ingestPc \in {"start", "returned"}
        /\ ingestCalls = <<>>
        /\ collExists = storeBefore.exists /\ collDocs = storeBefore.docs
        /\ ingestPc = "returned" => ingestOut = <<"Error: Directory does not exist">>

C14_Witness ==
    /\ ~ingestArgs.exists /\ ingestArgs.reset /\ ingestPc = "returned"
    /\ collDocs = <<OldChunk>>

(***************************************************************************)
(* Claims about load_docx_file and load_pptx_file (specification SpecFile).*)
(***************************************************************************)
DocxLoaded == docFile.kind = "docx" /\ loaded.returned
PptxLoaded == docFile.kind = "pptx" /\ loaded.returned

\* the places of a token in a text
Places(text, token) == {k \in 1..Len(text) : text[k] = token}

HasTablesMarker == Places(loaded.content, "--- Tables ---") # {}

\* the paragraphs whose text is not blank, as the document has them
NonBlankParagraphs == SelectSeq(docFile.paragraphs, NonBlank)

\* some row of some table has a row text that is not blank
SomeRowText ==
    \E t \in 1..Len(docFile.tables) : \E r \in 1..Len(docFile.tables[t]) :
        NonBlank(RowText(docFile.tables[t][r]))

\* the content up to the tables marker, or all of it
ParagraphPart ==
    IF HasTablesMarker
    THEN SubSeq(loaded.content, 1,
                (CHOOSE k \in Places(loaded.content, "--- Tables ---") : TRUE) - 1)
    ELSE loaded.content

\* C15: load_docx_file omits the paragraphs whose text is blank (the content
\* before the tables is the non-blank paragraphs, as they are, two newlines
\* apart); the content contains the '--- Tables ---' marker if and only if
\* some table row yields non-blank row text, so never for a document
\* without tables; num_tables is the number of tables.
C15_DocxContent ==
    DocxLoaded =>
        LET kept == Join(NonBlankParagraphs, <<"\n", "\n">>)
        IN  /\ ParagraphPart = IF ~HasTablesMarker THEN kept
                               ELSE IF kept = <<>> THEN <<"\n">>
                               ELSE kept \o <<"\n", "\n", "\n">>
            /\ HasTablesMarker <=> SomeRowText
            /\ docFile.tables = <<>> => ~HasTablesMarker
            /\ Cardinality(Places(loaded.content, "--- Tables ---")) <= 1
            /\ loaded.metadata.num_tables = Len(docFile.tables)

C15_Witness ==
    /\ DocxLoaded /\ HasTablesMarker
    /\ docFile.paragraphs = <<<<" ">>, <<" ", "q", " ">>>>
    /\ docFile.tables = <<<<>>, <<<<<<" ">>>>, <<<<"c">>>>>>>>
    /\ loaded.metadata.num_tables = 2

\* some shape of slide i has text that is not blank
SlideHasText(i) ==
    \E j \in 1..Len(docFile.slides[i]) :
        docFile.slides[i][j].has_text /\ NonBlank(docFile.slides[i][j].text)

\* the places in the content where the section of slide n starts
SlideSections(n) ==
    {k \in Places(loaded.content, "--- Slide ") : loaded.content[k + 1] = ToString(n)}

\* C16: load_pptx_file emits one '--- Slide n ---' section for each slide
\* that has a shape with non-blank text and none for any other slide, n
\* being the slide's 1-based position among all slides; num_slides is the
\* number of slides, those without text included.
C16_SlideSections ==
    PptxLoaded =>
        /\ \A i \in 1..Len(docFile.slides) :
              Cardinality(SlideSections(i)) = IF SlideHasText(i) THEN 1 ELSE 0
        /\ Cardinality(Places(loaded.content, "--- Slide "))
              = Cardinality({i \in 1..Len(docFile.slides) : SlideHasText(i)})
        /\ loaded.metadata.num_slides = Len(docFile.slides)

C16_Witness ==
    /\ PptxLoaded
    /\ Len(docFile.slides) = 2 /\ ~SlideHasText(1) /\ SlideHasText(2)
    /\ Len(docFile.slides[1]) = 2
    /\ SlideSections(2) = {1} /\ SlideSections(1) = {}
    /\ loaded.metadata.num_slides = 2

(***************************************************************************)
(* Claims about pdf_processor.py (specification SpecPdf).                  *)
(***************************************************************************)
PdfExtracted == pdfPc \in {"extracted", "returned"}

\* the number of words in an element's text: one more than its spaces
NumWords(element) == Cardinality(Places(element.text, " ")) + 1

\* the number of words of its page that the elements before element k hold
RECURSIVE WordsBefore(_, _)
WordsBefore(k, j) ==
    IF j = 0 THEN 0
    ELSE WordsBefore(k, j - 1)
         + (IF j < k /\ elements[j].page_number = elements[k].page_number
            THEN NumWords(elements[j]) ELSE 0)

ElementStart(k) == WordsBefore(k, Len(elements))
ElementEnd(k) == ElementStart(k) + NumWords(elements[k])

\* the words of element k: the run of its page's words that it covers
ElementWords(k) ==
    SubSeq(pdfPages[elements[k].page_number], ElementStart(k) + 1, ElementEnd(k))

\* the number of words of page p that the elements hold
WordsEmitted(p) ==
    LET onPage == {k \in 1..Len(elements) : elements[k].page_number = p}
    IN  IF onPage = {} THEN 0
        ELSE ElementEnd(CHOOSE k \in onPage : \A m \in onPage : m <= k)

TextsOf(words) == [i \in 1..Len(words) |-> words[i].text]

\* C18: extract_text_elements cuts each page's words, in extraction order,
\* into consecutive runs: every element is on one page and holds a non-empty
\* run of that page's words, its text being the words joined by single
\* spaces; the elements come in page order; and when the extraction is over
\* every word of every page is in an element, the last line included.
C18_WordsPartitioned ==
    /\ \A k \in 1..Len(elements) :
          /\ elements[k].page_number \in 1..pageNum
          /\ k > 1 => elements[k - 1].page_number <= elements[k].page_number
          /\ ElementEnd(k) <= Len(pdfPages[elements[k].page_number])
          /\ elements[k].text = Join(TextsOf(ElementWords(k)), <<" ">>)
    /\ pdfPc = "words" => WordsEmitted(pageNum) + Len(current_line_words) = wordPos
    /\ PdfExtracted => \A p \in 1..Len(pdfPages) : WordsEmitted(p) = Len(pdfPages[p])

C18_Witness ==
    /\ PdfExtracted
    /\ Len(pdfPages) = 2 /\ Len(pdfPages[1]) = 2 /\ Len(pdfPages[2]) = 1
    /\ Len(elements) = 2
    /\ elements[1].text = <<"a", " ", "b">> /\ elements[1].page_number = 1
    /\ elements[2].text = <<"c">> /\ elements[2].page_number = 2

\* the smallest top among some words
MinTop(words) ==
    CHOOSE t \in {words[i].top : i \in 1..Len(words)} :
        \A i \in 1..Len(words) : t <= words[i].top

\* every word after the first is within 5 units of the smallest top before it
NearTheTopsBefore(words) ==
    \A i \in 2..Len(words) : Abs(words[i].top - MinTop(SubSeq(words, 1, i - 1))) < 5

\* C19 (amended): within any TextElement, and within the line being built,
\* the top of every word after the first differs by less than 5 units from
\* the smallest top among the words before it.
C19_TopsNearLineTop ==
    /\ \A k \in 1..Len(elements) : NearTheTopsBefore(ElementWords(k))
    /\ NearTheTopsBefore(current_line_words)

C19_Witness ==
    /\ PdfExtracted /\ Len(elements) = 1
    /\ Len(ElementWords(1)) = 3
    /\ ElementWords(1)[1].top = 8 /\ ElementWords(1)[3].top = 0

\* C19 as stated: within any TextElement the tops of any two of its words
\* differ by less than 5 units.
C19_AsStated ==
    \A k \in 1..Len(elements) :
        LET words == ElementWords(k)
        IN  \A i, j \in 1..Len(words) : Abs(words[i].top - words[j].top) < 5

\* box is the union of the boxes of the words
IsUnion(box, words) ==
    /\ \A i \in 1..Len(words) :
          /\ box.x0 <= words[i].x0 /\ box.y0 <= words[i].top
          /\ box.x1 >= words[i].x1 /\ box.y1 >= words[i].bottom
    /\ \E i \in 1..Len(words) : box.x0 = words[i].x0
    /\ \E i \in 1..Len(words) : box.y0 = words[i].top
    /\ \E i \in 1..Len(words) : box.x1 = words[i].x1
    /\ \E i \in 1..Len(words) : box.y1 = words[i].bottom
    /\ box.width = box.x1 - box.x0
    /\ box.height = box.y1 - box.y0

\* C20: every TextElement's bounding box is the union of its words' boxes
\* (x0 and y0 the minima, x1 and y1 the maxima, width = x1 - x0 and
\* height = y1 - y0), and so is the box of the line being built after every
\* word added to it.
C20_BboxIsUnion ==
    /\ \A k \in 1..Len(elements) : IsUnion(elements[k].bbox, ElementWords(k))
    /\ current_line_words # <<>> =>
          current_line_bbox # <<>> /\ IsUnion(current_line_bbox[1], current_line_words)

C20_Witness ==
    /\ pdfPc = "words" /\ Len(elements) = 1 /\ Len(ElementWords(1)) = 2
    /\ elements[1].bbox = [x0 |-> 1, y0 |-> 4, x1 |-> 6, y1 |-> 10,
                           width |-> 5, height |-> 6]
    /\ Len(current_line_words) = 1 /\ current_line_bbox[1].y0 = 0

\* the pages on which extract_words found a word
PagesWithWords == {p \in 1..Len(pdfPages) : pdfPages[p] # <<>>}

\* C17: num_pages is the number of distinct pages that contribute a text
\* element, that is of pages with at least one word: 0, with the empty
\* string as content, for a PDF without extractable words, never more than
\* the number of pages of the file; num_text_elements is the number of
\* elements extracted.
C17_NumPages ==
    pdfPc = "returned" =>
        /\ pdfResult.metadata.num_pages = Cardinality(PagesWithWords)
        /\ pdfResult.metadata.num_pages \in 0..Len(pdfPages)
        /\ PagesWithWords = {} =>
              pdfResult.metadata.num_pages = 0 /\ pdfResult.content = <<>>
        /\ PagesWithWords # {} => pdfResult.content # <<>>
        /\ pdfResult.metadata.num_text_elements = Len(elements)

C17_Witness ==
    /\ pdfPc = "returned"
    /\ Len(pdfPages) = 2 /\ pdfPages[1] = <<>> /\ Len(pdfPages[2]) = 3
    /\ pdfResult.metadata.num_pages = 1
    /\ pdfResult.metadata.num_text_elements = 2

(***************************************************************************)
(* Further claims about add_documents (specification Spec).                *)
(***************************************************************************)
\* C21 as stated: add_documents stores every document of the documents
\* list whatever the metadatas argument is: the chunks of every document
\* are among those handed to the store, and one ID per such chunk comes back,
\* also when metadatas has fewer entries than documents.
C21_AsStated ==
    IsAdd =>
        /\ \A i \in 1..Len(result.documents) :
              ChunksOf(result.split, i) = SplitText(result.documents[i])
        /\ ~result.raised =>
              /\ Len(result.ids) = Len(result.split)
              /\ SubSeq(collDocs, Len(collDocs) - Len(result.split) + 1, Len(collDocs))
                    = Stored(result.split)

(***************************************************************************)
(* Further claims about load_docx_file (specification SpecFile).           *)
(***************************************************************************)
\* C22 as stated: num_paragraphs is the number of paragraphs with non-blank
\* text, whether or not the document contains tables.
C22_AsStated ==
    DocxLoaded => loaded.metadata.num_paragraphs = Len(NonBlankParagraphs)

\* every cell of the row is blank
RowBlank(row) == \A c \in 1..Len(row) : ~NonBlank(row[c])

\* the rows of the document that have a cell with text, by table and place
RowsWithText ==
    {tr \in UNION {{<<t, r>> : r \in 1..Len(docFile.tables[t])} :
                   t \in 1..Len(docFile.tables)} :
        ~RowBlank(docFile.tables[tr[1]][tr[2]])}

\* the number of lines the content has after the tables marker: the marker
\* ends with a newline and two newlines come before every line
TableLines ==
    IF ~HasTablesMarker THEN 0
    ELSE LET at == CHOOSE k \in Places(loaded.content, "--- Tables ---") : TRUE
         IN  (Cardinality({k \in Places(loaded.content, "\n") : k > at}) - 1) \div 2

\* C23 as stated: a table row all of whose cells are blank contributes no
\* line to the content (the lines after the marker are those of the rows
\* with text) and does not by itself make the marker appear, for any number
\* of cells in the row.
C23_AsStated ==
    DocxLoaded =>
        /\ TableLines = Cardinality(RowsWithText)
        /\ RowsWithText = {} => ~HasTablesMarker

(***************************************************************************)
(* Claims about format_with_layout_context (specification SpecFormat).     *)
(***************************************************************************)
Formatted == pdfPc = "formatted"

\* the lines of a text: what stands between its newlines
RECURSIVE LinesOf(_)
LinesOf(text) ==
    IF Places(text, "\n") = {} THEN <<text>>
    ELSE LET k == CHOOSE j \in Places(text, "\n") :
                      \A l \in Places(text, "\n") : j <= l
         IN  <<SubSeq(text, 1, k - 1)>> \o LinesOf(SubSeq(text, k + 1, Len(text)))

IsHeader(line) == line # <<>> /\ line[1] = "[PAGE "
IsSeparator(line) == line # <<>> /\ \A k \in 1..Len(line) : line[k] = "="
IsAnnotation(line) == line # <<>> /\ line[1] = "["
IsTextLine(line) ==
    line # <<>> /\ ~IsHeader(line) /\ ~IsSeparator(line) /\ ~IsAnnotation(line)
IsHeaderOrText(line) == IsHeader(line) \/ IsTextLine(line)

\* element i is the first, or its page is not the page of the element before
IsChange(i) == i = 1 \/ elements[i].page_number # elements[i - 1].page_number

\* the header and text lines the elements call for, in order: a header at
\* every change of page, then the element's text
RECURSIVE HeadersAndTexts(_)
HeadersAndTexts(n) ==
    IF n = 0 THEN <<>>
    ELSE HeadersAndTexts(n - 1)
         \o (IF IsChange(n)
             THEN <<<<"[PAGE ", ToString(elements[n].page_number), "]">>>> ELSE <<>>)
         \o <<elements[n].text>>

HeaderPlaces(lines) == {h \in 1..Len(lines) : IsHeader(lines[h])}

IsSuffix(a, b) == Len(a) <= Len(b) /\ SubSeq(b, Len(b) - Len(a) + 1, Len(b)) = a

BboxEntry(element) ==
    <<"bbox:[", ToString(element.bbox.x0), ",", ToString(element.bbox.y0), ",",
      ToString(element.bbox.x1), ",", ToString(element.bbox.y1), "]">>

\* C24: format_with_layout_context emits a "[PAGE n]" header exactly once
\* at each change of page number between consecutive elements (the first
\* element included), each before the text of the element that changes the
\* page; the line of 80 "=" stands right before every header except the
\* first and nowhere else; no elements give the empty string; with
\* preserve_layout False there is no annotation line and each text is
\* followed by one newline only (a blank line follows a text only where a
\* separator comes next); with preserve_layout True every element has one
\* annotation line, which begins with "[" and the position entry and ends
\* with the bbox entry and "]".
C24_LayoutFormat ==
    Formatted =>
        LET lines == LinesOf(pdfResult.content)
            headers == HeaderPlaces(lines)
            annotations == SelectSeq(lines, IsAnnotation)
        IN  /\ SelectSeq(lines, IsHeaderOrText) = HeadersAndTexts(Len(elements))
            /\ \A h \in headers :
                  IF \A g \in headers : h <= g
                  THEN h = 1
                  ELSE h > 1 /\ lines[h - 1] = [i \in 1..80 |-> "="]
            /\ \A s \in 1..Len(lines) :
                  IsSeparator(lines[s]) => s < Len(lines) /\ IsHeader(lines[s + 1])
            /\ elements = <<>> => pdfResult.content = <<>>
            /\ ~preserve_layout =>
                  /\ annotations = <<>>
                  /\ \A j \in 1..Len(lines) :
                        IsTextLine(lines[j]) =>
                            /\ j < Len(lines)
                            /\ lines[j + 1] = <<>> =>
                                  \/ j + 1 = Len(lines)
                                  \/ IsSeparator(lines[j + 2])
            /\ preserve_layout =>
                  /\ Len(annotations) = Len(elements)
                  /\ \A e \in 1..Len(elements) :
                        /\ IsPrefix(<<"[", "position:">> \o PositionContext(elements[e]),
                                    annotations[e])
                        /\ IsSuffix(BboxEntry(elements[e]) \o <<"]">>, annotations[e])

\* three elements on pages 1, 2 and 1 again, the first in a bold font, have
\* been formatted with annotations: three headers and two separators
C24_Witness ==
    /\ Formatted /\ preserve_layout
    /\ Len(elements) = 3
    /\ elements[1].page_number = 1 /\ elements[2].page_number = 2
    /\ elements[3].page_number = 1
    /\ elements[1].is_bold
    /\ Cardinality(Places(pdfResult.content, "[PAGE ")) = 3
    /\ Cardinality(Places(pdfResult.content, "=")) = 160

\* two elements of one page then one of the next have been formatted without
\* annotations
C24_WitnessPlain ==
    /\ Formatted /\ ~preserve_layout
    /\ Len(elements) = 3
    /\ ~IsChange(2) /\ IsChange(3)
    /\ Cardinality(Places(pdfResult.content, "[PAGE ")) = 2

====
